---- MODULE Spec2Model ----
(***************************************************************************)
(* Streaming core of stm32-power-scope: SPSC byte rings, frame codec, TX   *)
(* engine (stream ring + single response slot), RX resync/parse loop, the  *)
(* command glue and the tick.  Bytes are integers 0..255, frames are       *)
(* sequences of bytes, ring indices are 16-bit and are reduced modulo the  *)
(* capacity only when they are used, as in ring_buffer.c.                  *)
(***************************************************************************)
EXTENDS Integers, Sequences, FiniteSets, TLC

\* ------------------------------------------------------------------------
\* Bounds of the model
\* ------------------------------------------------------------------------
TxCapLog2 == 7      \* TX ring capacity is 2^TxCapLog2 bytes
RxCapLog2 == 6      \* RX ring capacity is 2^RxCapLog2 bytes
MaxOps == 4         \* calls per behaviour of SpecTx and of Spec
MaxIsrOps == 5      \* interrupts and ticks per behaviour of SpecIsr
RbCapLog2 == 3      \* capacity of the directly driven ring is 2^RbCapLog2 bytes
MaxRbOps == 5       \* ring calls per behaviour of SpecRb
MaxLiveChunks == 4  \* chunks the host sends per behaviour of SpecLive
MaxStreamOps == 8   \* on_rx calls and ticks per behaviour of SpecStream
MaxStreamChunks == 3 \* on_rx calls per behaviour of SpecStream
MaxCmdOps == 4      \* on_rx calls and ticks per behaviour of SpecCmd
MaxCmdChunks == 2   \* on_rx calls per behaviour of SpecCmd
MaxFnOps == 3       \* calls per behaviour of SpecFn
MaxUartBytes == 5   \* bytes the host sends per behaviour of SpecUart
MaxReadOps == 6     \* on_rx calls, ticks and READ_SENSOR commands per behaviour of SpecRead

TxCap == 2 ^ TxCapLog2
RxCap == 2 ^ RxCapLog2
RbCap == 2 ^ RbCapLog2
U16 == 2 ^ 16

\* ------------------------------------------------------------------------
\* Protocol constants
\* ------------------------------------------------------------------------
PROTO_MAGIC == 23205            \* 0x5AA5, on the wire A5 5A
PROTO_VERSION == 0
PROTO_TYPE_STREAM == 0
PROTO_TYPE_CMD == 1
PROTO_TYPE_ACK == 2
PROTO_TYPE_NACK == 3
PROTO_HDR_LEN == 16
PROTO_MAX_PAYLOAD == 46
PROTO_CRC_LEN == 2
PROTO_FRAME_MAX_BYTES == PROTO_HDR_LEN + PROTO_MAX_PAYLOAD + PROTO_CRC_LEN
PS_CRC16_POLY == 4129           \* 0x1021
PS_CRC16_INIT == 65535          \* 0xFFFF
PS_TRANSPORT_MAX_WRITE_SIZE == 64
PS_ERR_INVALID_CMD == 1
CMD_START == 1
CMD_STOP == 2
CMD_SET_PERIOD == 3
CMD_PING == 5
CMD_GET_UPTIME == 8
PS_ERR_INVALID_VALUE == 3
PS_ERR_SENSOR_BUSY == 4
PS_ERR_INTERNAL == 6
UART_RX_ASSEMBLY_BUF_SIZE == 128
COMM_USB_CDC_BEST_CHUNK == 512
PS_STREAM_PERIOD_MS == 1000
PS_STREAM_PERIOD_MIN_MS == 5
PS_STREAM_PERIOD_MAX_MS == 10000
PS_SENSOR_SAMPLE_LEN == 6

Min(a, b) == IF a < b THEN a ELSE b

Byte == 0 .. 255

\* little-endian serialisation (byteio)
LE16(x) == << x % 256, (x \div 256) % 256 >>

\* a uint32_t as its two 16-bit halves << low, high >>
W32(n) == << n % U16, (n \div U16) % U16 >>
W32Add(w, n) ==
    LET lo == w[1] + (n % U16)
    IN  << lo % U16, (w[2] + (n \div U16) + (lo \div U16)) % U16 >>

LE32(w) == LE16(w[1]) \o LE16(w[2])
RdLE16(s, i) == s[i] + 256 * s[i + 1]
RdLE32(s, i) == << RdLE16(s, i), RdLE16(s, i + 2) >>

\* ------------------------------------------------------------------------
\* CRC-16/CCITT-FALSE
\* ------------------------------------------------------------------------
RECURSIVE Xor(_, _)
Xor(a, b) ==
    IF a = 0 THEN b
    ELSE IF b = 0 THEN a
    ELSE (((a % 2) + (b % 2)) % 2) + 2 * Xor(a \div 2, b \div 2)

\* the inner loop of ps_crc16_le: i rounds of "shift left, xor the polynomial
\* when the top bit was set"
RECURSIVE crc16_rounds(_, _)
crc16_rounds(crc, i) ==
    IF i = 0 THEN crc
    ELSE crc16_rounds(IF crc >= 32768
                         THEN Xor((crc * 2) % U16, PS_CRC16_POLY)
                         ELSE (crc * 2) % U16,
                      i - 1)

\* exclusive or of two bytes, tabulated from Xor
xor_nib == [a \in 0 .. 15 |-> [b \in 0 .. 15 |-> Xor(a, b)]]
xor_tab == [a \in Byte |-> [b \in Byte |->
               16 * xor_nib[a \div 16][b \div 16] + xor_nib[a % 16][b % 16]]]

\* the eight rounds applied to a byte placed in the high half of the register
crc16_tab == [i \in Byte |-> crc16_rounds(i * 256, 8)]

\* one byte of ps_crc16_le: crc ^= b << 8, then eight rounds.  The rounds are
\* linear over GF(2), so they are applied to the high byte through crc16_tab
\* and the low byte is shifted up and combined with the table entry.
crc16_byte(crc, b) ==
    LET t == crc16_tab[xor_tab[crc \div 256][b]]
    IN  256 * xor_tab[crc % 256][t \div 256] + (t % 256)

RECURSIVE crc16_from(_, _, _)
crc16_from(data, i, crc) ==
    IF i > Len(data) THEN crc
    ELSE \* the running crc is computed once per byte
         CHOOSE r \in { crc16_from(data, i + 1, c) : c \in { crc16_byte(crc, data[i]) } } :
             TRUE

ps_crc16_le(data, crc) == crc16_from(data, 1, crc)

\* ------------------------------------------------------------------------
\* Frame codec
\* ------------------------------------------------------------------------
\* returns the frame written (the empty sequence when the call returns 0)
proto_write_frame(out_cap, type, cmd_id, payload, payload_len, seq, ts) ==
    LET plen == Min(payload_len, PROTO_MAX_PAYLOAD)
        n    == PROTO_HDR_LEN + plen + PROTO_CRC_LEN
        body == LE16(PROTO_MAGIC) \o << type, PROTO_VERSION >> \o LE16(plen)
                \o << cmd_id, 0 >> \o LE32(seq) \o LE32(ts)
                \o SubSeq(payload, 1, plen)
    IN  IF out_cap < n THEN << >>
        ELSE body \o LE16(ps_crc16_le(body, PS_CRC16_INIT))

proto_write_stream_frame(out_cap, payload, payload_len, seq, ts) ==
    proto_write_frame(out_cap, PROTO_TYPE_STREAM, 0, payload, payload_len, seq, ts)

\* the header fields as a read of the first 16 bytes on a little-endian target
proto_hdr(b) ==
    [ magic  |-> RdLE16(b, 1),
      type   |-> b[3],
      ver    |-> b[4],
      len    |-> RdLE16(b, 5),
      cmd_id |-> b[7],
      rsv    |-> b[8],
      seq    |-> RdLE32(b, 9),
      ts_ms  |-> RdLE32(b, 13) ]

NoHdr == [ magic |-> 0, type |-> 0, ver |-> 0, len |-> 0, cmd_id |-> 0,
           rsv |-> 0, seq |-> W32(0), ts_ms |-> W32(0) ]

\* a parse that hands out the payload from one byte too early
parse_frame_payload_shifted(buf) ==
    LET bad == [ n |-> 0, hdr |-> NoHdr, payload |-> << >> ]
    IN  IF Len(buf) < PROTO_HDR_LEN + PROTO_CRC_LEN THEN bad
        ELSE LET hdr == proto_hdr(buf)
                 n   == PROTO_HDR_LEN + hdr.len + PROTO_CRC_LEN
             IN  IF \/ hdr.magic # PROTO_MAGIC
                    \/ hdr.ver # PROTO_VERSION
                    \/ hdr.len > PROTO_MAX_PAYLOAD
                    \/ Len(buf) < n
                 THEN bad
                 ELSE IF ps_crc16_le(SubSeq(buf, 1, n - PROTO_CRC_LEN), PS_CRC16_INIT)
                         # RdLE16(buf, n - 1)
                 THEN bad
                 ELSE [ n |-> n, hdr |-> hdr,
                        payload |-> SubSeq(buf, PROTO_HDR_LEN, PROTO_HDR_LEN + hdr.len - 1) ]

\* n = bytes consumed (0: invalid or incomplete), with the header and payload
proto_parse_frame(buf) ==
    LET bad == [ n |-> 0, hdr |-> NoHdr, payload |-> << >> ]
    IN  IF Len(buf) < PROTO_HDR_LEN + PROTO_CRC_LEN THEN bad
        ELSE LET hdr == proto_hdr(buf)
                 n   == PROTO_HDR_LEN + hdr.len + PROTO_CRC_LEN
             IN  IF \/ hdr.magic # PROTO_MAGIC
                    \/ hdr.ver # PROTO_VERSION
                    \/ hdr.len > PROTO_MAX_PAYLOAD
                    \/ Len(buf) < n
                 THEN bad
                 ELSE IF ps_crc16_le(SubSeq(buf, 1, n - PROTO_CRC_LEN), PS_CRC16_INIT)
                         # RdLE16(buf, n - 1)
                 THEN bad
                 ELSE [ n |-> n, hdr |-> hdr,
                        payload |-> SubSeq(buf, PROTO_HDR_LEN + 1, PROTO_HDR_LEN + hdr.len) ]

\* ------------------------------------------------------------------------
\* SPSC ring buffer (rb_t): buf is indexed 0 .. cap-1
\* ------------------------------------------------------------------------
rb_init(cap_pow2) ==
    [ buf |-> [i \in 0 .. cap_pow2 - 1 |-> 0], cap |-> cap_pow2,
      head |-> 0, tail |-> 0, rejected |-> W32(0), highwater |-> 0, overpop |-> FALSE ]

\* a clear that leaves the ring as it is
rb_clear_keeping(r) == r

rb_clear(r) == [r EXCEPT !.tail = r.head]

rb_capacity(r) == r.cap

\* a used count taken as the plain difference of the two indices
rb_used_unmasked(r) == r.head - r.tail

\* (head - tail) & (cap - 1) on the promoted ints
rb_used(r) == (r.head - r.tail) % r.cap

rb_free(r) == r.cap - 1 - rb_used(r)

\* contiguous run at the read index: its length and its bytes
rb_peek_linear(r) ==
    LET used == rb_used(r)
        at   == r.tail % r.cap
        lin  == Min(r.cap - at, used)
    IN  IF used = 0 THEN [ len |-> 0, data |-> << >> ]
        ELSE [ len |-> lin, data |-> [i \in 1 .. lin |-> r.buf[at + i - 1]] ]

\* overpop records that some pop on this ring was made with n > used
rb_pop(r, n) ==
    [r EXCEPT !.tail = (r.tail + n) % U16, !.overpop = r.overpop \/ n > rb_used(r)]

\* a copy whose second memcpy starts one byte into the storage
rb_copy_second_part_shifted(r, n) ==
    LET m     == Min(n, rb_used(r))
        at    == r.tail % r.cap
        lin   == r.cap - at
        first == Min(m, lin)
    IN  [i \in 1 .. m |-> IF i <= first THEN r.buf[at + i - 1] ELSE r.buf[i - first]]

\* the bytes copied to dst (its length is the return value)
rb_copy_from_tail(r, n) ==
    LET m     == Min(n, rb_used(r))
        at    == r.tail % r.cap
        lin   == r.cap - at
        first == Min(m, lin)
    IN  [i \in 1 .. m |-> IF i <= first THEN r.buf[at + i - 1] ELSE r.buf[i - first - 1]]

\* the two memcpy, the publication of the write index and the high-water mark
rb_store(r, src, len) ==
    LET at    == r.head % r.cap
        first == Min(len, r.cap - at)
        nbuf  == [i \in 0 .. r.cap - 1 |->
                     IF i >= at /\ i < at + first THEN src[i - at + 1]
                     ELSE IF i < len - first THEN src[first + i + 1]
                     ELSE r.buf[i]]
        r1    == [r EXCEPT !.buf = nbuf, !.head = (r.head + len) % U16]
        u     == rb_used(r1)
    IN  [ r |-> [r1 EXCEPT !.highwater = IF u > r.highwater THEN u ELSE r.highwater],
          ret |-> len ]

\* a write that makes room by moving the read index past the oldest bytes
rb_write_evicting(r, src, len) ==
    IF len = 0 THEN [ r |-> r, ret |-> 0 ]
    ELSE IF len > r.cap - 1
         THEN [ r |-> [r EXCEPT !.rejected = W32Add(r.rejected, len)], ret |-> 0 ]
    ELSE IF rb_free(r) < len
         THEN rb_store(rb_pop(r, len - rb_free(r)), src, len)
    ELSE rb_store(r, src, len)

\* a write that does not look at the free space
rb_write_unchecked(r, src, len) ==
    IF len = 0 THEN [ r |-> r, ret |-> 0 ]
    ELSE IF len > r.cap - 1
         THEN [ r |-> [r EXCEPT !.rejected = W32Add(r.rejected, len)], ret |-> 0 ]
    ELSE rb_store(r, src, len)

\* a write that stores as much of src as there is room for
rb_write_partial(r, src, len) ==
    IF len = 0 THEN [ r |-> r, ret |-> 0 ]
    ELSE IF len > r.cap - 1
         THEN [ r |-> [r EXCEPT !.rejected = W32Add(r.rejected, len)], ret |-> 0 ]
    ELSE IF rb_free(r) < len
         THEN [ r |-> [rb_store(r, src, rb_free(r)).r EXCEPT
                          !.rejected = W32Add(r.rejected, len - rb_free(r))],
                ret |-> 0 ]
    ELSE rb_store(r, src, len)

\* the ring after the call and the value returned
rb_write_try(r, src, len) ==
    IF len = 0 THEN [ r |-> r, ret |-> 0 ]
    ELSE IF len > r.cap - 1
         THEN [ r |-> [r EXCEPT !.rejected = W32Add(r.rejected, len)], ret |-> 0 ]
    ELSE IF rb_free(r) < len
         THEN [ r |-> [r EXCEPT !.rejected = W32Add(r.rejected, len)], ret |-> 0 ]
    ELSE rb_store(r, src, len)

\* ring_buffer_adapter.c: ps_buffer_if_t over rb_t
append_adapter(r, src, len) ==
    LET w == rb_write_try(r, src, len) IN [ r |-> w.r, ok |-> (w.ret = len) ]

\* ------------------------------------------------------------------------
\* TX engine (ps_tx.c): stream ring + single response slot
\* ------------------------------------------------------------------------
ps_tx_init(max_payload, response_slot_cap) ==
    [ max_payload       |-> max_payload,
      response_slot     |-> [i \in 1 .. response_slot_cap |-> 0],
      response_slot_cap |-> response_slot_cap,
      response_len      |-> 0,
      response_pending  |-> FALSE ]

\* the header test shared by drop_one_frame_buf and ps_tx_pump
hdr_is_garbage(hdr) ==
    hdr.magic # PROTO_MAGIC \/ hdr.ver # PROTO_VERSION \/ hdr.len > PROTO_MAX_PAYLOAD

\* a drop that removes the fixed overhead only, whatever the payload length
drop_fixed_overhead(r) ==
    IF rb_used(r) < PROTO_HDR_LEN + PROTO_CRC_LEN THEN [ r |-> r, ret |-> 0 ]
    ELSE [ r |-> rb_pop(r, PROTO_HDR_LEN + PROTO_CRC_LEN), ret |-> 1 ]

\* ring after the call, value returned (1 dropped, 0 not)
drop_one_frame_buf(r) ==
    LET used == rb_used(r)
    IN  IF used < PROTO_HDR_LEN + PROTO_CRC_LEN THEN [ r |-> r, ret |-> 0 ]
        ELSE LET hdr == proto_hdr(rb_copy_from_tail(r, PROTO_HDR_LEN))
                 frame_len == (PROTO_HDR_LEN + hdr.len + PROTO_CRC_LEN) % U16
             IN  IF hdr_is_garbage(hdr) THEN [ r |-> rb_pop(r, 1), ret |-> 1 ]
                 ELSE IF used < frame_len THEN [ r |-> r, ret |-> 0 ]
                 ELSE [ r |-> rb_pop(r, frame_len), ret |-> 1 ]

\* up to k passes of the while loop of ps_tx_enqueue_frame on s = the ring,
\* the successful drops so far, whether the ring was cleared and whether the
\* loop has been left; the passes are split in halves to keep the evaluation
\* shallow
RECURSIVE make_room_passes(_, _, _)
make_room_passes(s, len, k) ==
    IF s.done THEN s
    ELSE IF k > 1
         THEN make_room_passes(make_room_passes(s, len, k \div 2), len, k - (k \div 2))
    ELSE IF rb_free(s.r) < len
         THEN LET d == drop_one_frame_buf(s.r)
              IN  IF d.ret = 0
                  THEN [ s EXCEPT !.r = rb_clear(s.r), !.cleared = TRUE, !.done = TRUE ]
                  ELSE [ s EXCEPT !.r = d.r, !.dropped = s.dropped + 1 ]
    ELSE [ s EXCEPT !.done = TRUE ]

\* the while loop of ps_tx_enqueue_frame; ndrop counts the successful drops
RECURSIVE tx_make_room(_, _, _)
tx_make_room(r, len, ndrop) ==
    LET s == make_room_passes([ r |-> r, dropped |-> ndrop, cleared |-> FALSE,
                                done |-> FALSE ], len, 16)
    IN  IF s.done THEN [ r |-> s.r, dropped |-> s.dropped, cleared |-> s.cleared ]
        ELSE tx_make_room(s.r, len, s.dropped)

\* an enqueue that empties the ring whenever the new frame does not fit
enqueue_clearing_ring(r, frame, len) ==
    IF len = 0 \/ len > rb_capacity(r) - 1
    THEN [ r |-> r, dropped |-> 0, cleared |-> FALSE, appended |-> FALSE ]
    ELSE LET full == rb_free(r) < len
             a == append_adapter(IF full THEN rb_clear(r) ELSE r, frame, len)
         IN  [ r |-> a.r, dropped |-> 0, cleared |-> full, appended |-> a.ok ]

ps_tx_enqueue_frame(r, frame, len) ==
    LET cap == rb_capacity(r)
    IN  IF len = 0 \/ cap = 0 \/ len > cap - 1
        THEN [ r |-> r, dropped |-> 0, cleared |-> FALSE, appended |-> FALSE ]
        ELSE LET m == tx_make_room(r, len, 0)
                 a == append_adapter(m.r, frame, len)
             IN  [ r |-> a.r, dropped |-> m.dropped, cleared |-> m.cleared,
                   appended |-> a.ok ]

\* a send_response that keeps the response already pending
send_response_unless_pending(c, type, cmd_id, req_seq, ts, payload, payload_len) ==
    LET f == proto_write_frame(c.response_slot_cap, type, cmd_id, payload,
                               Min(payload_len, PROTO_MAX_PAYLOAD), req_seq, ts)
        n == Len(f)
    IN  IF c.response_pending \/ n = 0 THEN c
        ELSE [c EXCEPT !.response_slot = f \o SubSeq(@, n + 1, c.response_slot_cap),
                       !.response_len = n,
                       !.response_pending = TRUE]

ps_tx_send_response(c, type, cmd_id, req_seq, ts, payload, payload_len) ==
    LET plen == Min(payload_len, PROTO_MAX_PAYLOAD)
        f    == proto_write_frame(c.response_slot_cap, type, cmd_id, payload, plen,
                                  req_seq, ts)
        n    == Len(f)
    IN  IF n = 0 \/ n > c.response_slot_cap THEN c
        ELSE [c EXCEPT !.response_slot = f \o SubSeq(@, n + 1, c.response_slot_cap),
                       !.response_len = n,
                       !.response_pending = TRUE]

ps_tx_send_stream(c, r, payload, payload_len, ts, seq) ==
    IF c.max_payload # 0 /\ payload_len > c.max_payload
    THEN [ r |-> r, dropped |-> 0, cleared |-> FALSE, appended |-> FALSE ]
    ELSE LET tmp == proto_write_stream_frame(PROTO_FRAME_MAX_BYTES, payload,
                                             payload_len, seq, ts)
             n   == Len(tmp)
         IN  IF n # 0 /\ n <= U16 - 1
             THEN ps_tx_enqueue_frame(r, tmp, n)
             ELSE [ r |-> r, dropped |-> 0, cleared |-> FALSE, appended |-> FALSE ]

\* the transport's answer to tx_write(buf, len)
TxWriteResults == { "full", "busy", "error", "short" }
tx_write(wres, len) ==
    CASE wres = "full"  -> len
      [] wres = "busy"  -> 0
      [] wres = "error" -> -1
      [] wres = "short" -> len \div 2

\* A pump call yields the context and ring after the call; calls lists the
\* tx_write invocations made (where the buffer came from, its bytes, the value
\* returned), popped the bytes removed from the stream ring.
pump_idle(c, r) == [ c |-> c, r |-> r, calls |-> << >>, popped |-> 0 ]

\* a response branch that gives the response up when the write fails
pump_response_once(c, r, best_chunk, wres) ==
    IF c.response_len <= best_chunk
    THEN LET w == tx_write(wres, c.response_len)
         IN  [ c |-> [c EXCEPT !.response_pending = FALSE],
               r |-> r,
               calls |-> << [ src |-> "resp",
                              data |-> SubSeq(c.response_slot, 1, c.response_len),
                              w |-> w ] >>,
               popped |-> 0 ]
    ELSE pump_idle(c, r)

\* the response branch of ps_tx_pump (entered with response_pending set)
pump_response(c, r, best_chunk, wres) ==
    IF c.response_len <= best_chunk
    THEN LET w == tx_write(wres, c.response_len)
         IN  [ c |-> IF w > 0 /\ w = c.response_len
                        THEN [c EXCEPT !.response_pending = FALSE] ELSE c,
               r |-> r,
               calls |-> << [ src |-> "resp",
                              data |-> SubSeq(c.response_slot, 1, c.response_len),
                              w |-> w ] >>,
               popped |-> 0 ]
    ELSE pump_idle(c, r)

\* a stream branch that counts the CRC twice in what it pops
pump_stream_crc_twice(c, r, best_chunk, wres) ==
    LET used == rb_used(r)
    IN  IF used < PROTO_HDR_LEN + PROTO_CRC_LEN THEN pump_idle(c, r)
        ELSE LET hdr == proto_hdr(rb_copy_from_tail(r, PROTO_HDR_LEN))
                 frame_len == (PROTO_HDR_LEN + hdr.len + PROTO_CRC_LEN) % U16
             IN  IF hdr_is_garbage(hdr)
                 THEN [ pump_idle(c, r) EXCEPT !.r = rb_pop(r, 1), !.popped = 1 ]
                 ELSE IF used < frame_len \/ frame_len > best_chunk THEN pump_idle(c, r)
                 ELSE LET data == rb_copy_from_tail(r, frame_len)
                          w    == tx_write(wres, frame_len)
                          ok   == w > 0 /\ w = frame_len
                      IN  [ c |-> c,
                            r |-> IF ok THEN rb_pop(r, frame_len + PROTO_CRC_LEN) ELSE r,
                            calls |-> << [ src |-> "ring", data |-> data, w |-> w ] >>,
                            popped |-> IF ok THEN frame_len ELSE 0 ]

\* the stream branch of ps_tx_pump
pump_stream(c, r, best_chunk, wres) ==
    LET used == rb_used(r)
    IN  IF used < PROTO_HDR_LEN + PROTO_CRC_LEN THEN pump_idle(c, r)
        ELSE LET hdr == proto_hdr(rb_copy_from_tail(r, PROTO_HDR_LEN))
                 frame_len == (PROTO_HDR_LEN + hdr.len + PROTO_CRC_LEN) % U16
             IN  IF hdr_is_garbage(hdr)
                 THEN [ pump_idle(c, r) EXCEPT !.r = rb_pop(r, 1), !.popped = 1 ]
                 ELSE IF used < frame_len \/ frame_len > best_chunk THEN pump_idle(c, r)
                 ELSE LET lin  == rb_peek_linear(r)
                          data == IF lin.len >= frame_len
                                  THEN SubSeq(lin.data, 1, frame_len)
                                  ELSE rb_copy_from_tail(r, frame_len)
                          w    == tx_write(wres, frame_len)
                          ok   == w > 0 /\ w = frame_len
                      IN  [ c |-> c,
                            r |-> IF ok THEN rb_pop(r, frame_len) ELSE r,
                            calls |-> << [ src |-> "ring", data |-> data, w |-> w ] >>,
                            popped |-> IF ok THEN frame_len ELSE 0 ]

\* a pump that serves the stream ring first and the response slot after it
pump_ring_before_slot(c, r, link_ready, best_chunk, wres) ==
    IF ~link_ready THEN pump_idle(c, r)
    ELSE IF rb_used(r) >= PROTO_HDR_LEN + PROTO_CRC_LEN
    THEN pump_stream(c, r, best_chunk, wres)
    ELSE IF c.response_pending THEN pump_response(c, r, best_chunk, wres)
    ELSE pump_idle(c, r)

\* a pump that goes on to the stream ring after serving the response slot
pump_slot_then_ring(c, r, link_ready, best_chunk, wres) ==
    IF ~link_ready THEN pump_idle(c, r)
    ELSE IF c.response_pending
    THEN LET a == pump_response(c, r, best_chunk, wres)
             b == pump_stream(a.c, a.r, best_chunk, wres)
         IN  [ b EXCEPT !.calls = a.calls \o b.calls ]
    ELSE pump_stream(c, r, best_chunk, wres)

\* a pump that leaves the frame it has written in the ring
pump_without_pop(c, r, link_ready, best_chunk, wres) ==
    IF ~link_ready THEN pump_idle(c, r)
    ELSE IF c.response_pending THEN pump_response(c, r, best_chunk, wres)
    ELSE [ pump_stream(c, r, best_chunk, wres) EXCEPT !.r = r ]

\* a pump that gives up whatever a failed write was offering
pump_dropping_on_failure(c, r, link_ready, best_chunk, wres) ==
    LET p == IF ~link_ready THEN pump_idle(c, r)
             ELSE IF c.response_pending THEN pump_response(c, r, best_chunk, wres)
             ELSE pump_stream(c, r, best_chunk, wres)
    IN  IF p.calls = << >> \/ p.calls[1].w = Len(p.calls[1].data) THEN p
        ELSE IF p.calls[1].src = "resp"
        THEN [ p EXCEPT !.c.response_pending = FALSE ]
        ELSE [ p EXCEPT !.r = rb_pop(r, Len(p.calls[1].data)),
                        !.popped = Len(p.calls[1].data) ]

ps_tx_pump(c, r, link_ready, best_chunk, wres) ==
    IF ~link_ready THEN pump_idle(c, r)
    ELSE IF c.response_pending THEN pump_response(c, r, best_chunk, wres)
    ELSE pump_stream(c, r, best_chunk, wres)

\* ------------------------------------------------------------------------
\* Command parsers, handlers and dispatch table
\* ------------------------------------------------------------------------
\* index of the sensor with this runtime id in the sensor array, 0 for NULL
get_sensor_by_runtime_id(ss, runtime_id) ==
    IF \E i \in 1 .. Len(ss) : ss[i].runtime_id = runtime_id
    THEN CHOOSE i \in 1 .. Len(ss) :
             /\ ss[i].runtime_id = runtime_id
             /\ \A j \in 1 .. i - 1 : ss[j].runtime_id # runtime_id
    ELSE 0

ps_parse_set_period(payload, len) ==
    IF len < 3 THEN [ ok |-> FALSE, sensor_id |-> 0, period_ms |-> 0 ]
    ELSE [ ok |-> TRUE, sensor_id |-> payload[1], period_ms |-> RdLE16(payload, 2) ]

ps_parse_noarg(payload, len) == [ ok |-> (len = 0), sensor_id |-> 0 ]

ps_parse_sensor_id(payload, len) ==
    IF len < 1 THEN [ ok |-> FALSE, sensor_id |-> 0 ]
    ELSE [ ok |-> TRUE, sensor_id |-> payload[1] ]

\* a handler yields its return value, the response bytes and the sensor array
handle_ping(ss, cmd) == [ ok |-> TRUE, resp |-> << >>, sensors |-> ss ]

\* a START that lets the sequence number run on
handle_start_keeping_seq(ss, cmd) ==
    LET i == get_sensor_by_runtime_id(ss, cmd.sensor_id)
    IN  IF i = 0
        THEN [ ok |-> FALSE, resp |-> << PS_ERR_INVALID_VALUE >>, sensors |-> ss ]
        ELSE [ ok |-> TRUE, resp |-> << >>,
               sensors |-> [ss EXCEPT ![i].streaming = TRUE, ![i].sm = "IDLE"] ]

handle_start(ss, cmd) ==
    LET i == get_sensor_by_runtime_id(ss, cmd.sensor_id)
    IN  IF i = 0
        THEN [ ok |-> FALSE, resp |-> << PS_ERR_INVALID_VALUE >>, sensors |-> ss ]
        ELSE [ ok |-> TRUE, resp |-> << >>,
               sensors |-> [ss EXCEPT ![i].streaming = TRUE, ![i].sm = "IDLE",
                                      ![i].seq = 0] ]

\* a STOP that rewinds the state machine and leaves the stream enabled
handle_stop_rewinding_only(ss, cmd) ==
    LET i == get_sensor_by_runtime_id(ss, cmd.sensor_id)
    IN  IF i = 0
        THEN [ ok |-> FALSE, resp |-> << PS_ERR_INVALID_VALUE >>, sensors |-> ss ]
        ELSE [ ok |-> TRUE, resp |-> << >>,
               sensors |-> [ss EXCEPT ![i].sm = "IDLE"] ]

handle_stop(ss, cmd) ==
    LET i == get_sensor_by_runtime_id(ss, cmd.sensor_id)
    IN  IF i = 0
        THEN [ ok |-> FALSE, resp |-> << PS_ERR_INVALID_VALUE >>, sensors |-> ss ]
        ELSE [ ok |-> TRUE, resp |-> << >>,
               sensors |-> [ss EXCEPT ![i].streaming = FALSE, ![i].sm = "IDLE"] ]

\* a SET_PERIOD that checks the lower bound only
handle_set_period_unbounded(ss, cmd) ==
    LET i == get_sensor_by_runtime_id(ss, cmd.sensor_id)
    IN  IF i = 0 \/ cmd.period_ms < PS_STREAM_PERIOD_MIN_MS
        THEN [ ok |-> FALSE, resp |-> << PS_ERR_INVALID_VALUE >>, sensors |-> ss ]
        ELSE [ ok |-> TRUE, resp |-> << >>,
               sensors |-> [ss EXCEPT ![i].period_ms = cmd.period_ms] ]

handle_set_period(ss, cmd) ==
    LET i == get_sensor_by_runtime_id(ss, cmd.sensor_id)
    IN  IF i = 0
        THEN [ ok |-> FALSE, resp |-> << PS_ERR_INVALID_VALUE >>, sensors |-> ss ]
        ELSE IF \/ cmd.period_ms < PS_STREAM_PERIOD_MIN_MS
                \/ cmd.period_ms > PS_STREAM_PERIOD_MAX_MS
        THEN [ ok |-> FALSE, resp |-> << PS_ERR_INVALID_VALUE >>, sensors |-> ss ]
        ELSE [ ok |-> TRUE, resp |-> << >>,
               sensors |-> [ss EXCEPT ![i].period_ms = cmd.period_ms] ]

\* the table built by ps_app_init and the dispatch over it: an entry without
\* parser or handler, or a parser that refuses the payload, returns false
ps_cmd_dispatcher_dispatch_resp(ss, cmd_id, payload, len) ==
    LET unhandled == [ ok |-> FALSE, resp |-> << >>, sensors |-> ss ]
    IN  CASE cmd_id = CMD_START ->
               LET c == ps_parse_sensor_id(payload, len)
               IN  IF c.ok THEN handle_start(ss, c) ELSE unhandled
          [] cmd_id = CMD_STOP ->
               LET c == ps_parse_sensor_id(payload, len)
               IN  IF c.ok THEN handle_stop(ss, c) ELSE unhandled
          [] cmd_id = CMD_SET_PERIOD ->
               LET c == ps_parse_set_period(payload, len)
               IN  IF c.ok THEN handle_set_period(ss, c) ELSE unhandled
          [] cmd_id = CMD_PING ->
               LET c == ps_parse_noarg(payload, len)
               IN  IF c.ok THEN handle_ping(ss, c) ELSE unhandled
          [] OTHER -> unhandled

\* ------------------------------------------------------------------------
\* Streaming core (ps_core): RX loop, command glue, state machine, tick
\* ------------------------------------------------------------------------
ps_tx_send_ack(c, cmd_id, seq, ts, resp) ==
    ps_tx_send_response(c, PROTO_TYPE_ACK, cmd_id, seq, ts, resp, Len(resp))

ps_tx_send_nack(c, cmd_id, seq, ts, resp) ==
    LET err == IF resp = << >> THEN << PS_ERR_INVALID_CMD >> ELSE resp
    IN  ps_tx_send_response(c, PROTO_TYPE_NACK, cmd_id, seq, ts, err, Len(err))

\* The core state threaded through a tick: the RX ring, the TX context and
\* ring, the sensors, and what the tick has done so far (cmds: the CMD frames
\* parsed; resps: the slot contents after each response formed; lost: the
\* pending responses overwritten; enq: the stream frames the ring accepted;
\* steps: one entry per visit of the tick to a sensor's state machine, with
\* the sensor's flags and state at that moment, whether the machine was
\* dispatched and the adapter operation the dispatch invoked).
CoreState(r, c, t, ss) ==
    [ rx |-> r, txc |-> c, txr |-> t, sensors |-> ss,
      cmds |-> << >>, resps |-> << >>, lost |-> << >>, enq |-> << >>,
      steps |-> << >> ]

PendingResp(c) ==
    IF c.response_pending THEN SubSeq(c.response_slot, 1, c.response_len) ELSE << >>

\* records one send_ack / send_nack call in the tick's account
NoteResponse(st, c) ==
    [ st EXCEPT !.txc = c,
                !.resps = Append(@, PendingResp(c)),
                !.lost = IF st.txc.response_pending
                         THEN Append(@, PendingResp(st.txc)) ELSE @ ]

handle_cmd_frame(st, hdr, payload, len, t) ==
    LET d == ps_cmd_dispatcher_dispatch_resp(st.sensors, hdr.cmd_id, payload, len)
        c == IF d.ok
             THEN ps_tx_send_ack(st.txc, hdr.cmd_id, hdr.seq, W32(t), d.resp)
             ELSE ps_tx_send_nack(st.txc, hdr.cmd_id, hdr.seq, W32(t), d.resp)
    IN  [ NoteResponse(st, c) EXCEPT !.sensors = d.sensors ]

NoteCmd(st, hdr) ==
    IF hdr.type = PROTO_TYPE_CMD
    THEN [ st EXCEPT !.cmds = Append(@, [ cmd_id |-> hdr.cmd_id, seq |-> hdr.seq,
                                          len |-> hdr.len ]) ]
    ELSE st

\* One iteration of the RX loop on the contiguous bytes peeked yields the core
\* state after the command glue and the number of bytes to pop.
\* This body resynchronises by dropping one byte when the parse fails and
\* hands a CMD to handle_cmd_frame only when it has a payload.
rx_frame_pop1(st, data, t) ==
    LET f == proto_parse_frame(data)
    IN  IF f.n = 0 THEN [ st |-> st, n |-> 1 ]
        ELSE [ st |-> NoteCmd(IF f.hdr.type = PROTO_TYPE_CMD /\ f.hdr.len > 0
                              THEN handle_cmd_frame(st, f.hdr, f.payload, f.hdr.len, t)
                              ELSE st,
                              f.hdr),
               n |-> f.n ]

\* the scan for the next magic: the number of bytes to skip
RECURSIVE rx_scan_magic(_, _)
rx_scan_magic(data, offset) ==
    IF offset + 1 < Len(data) /\ RdLE16(data, offset + 1) # PROTO_MAGIC
    THEN rx_scan_magic(data, offset + 1)
    ELSE offset

\* a body that reports a failed parse to the host with a NACK
rx_frame_scan_nacking(st, data, t) ==
    LET f == proto_parse_frame(data)
    IN  IF RdLE16(data, 1) # PROTO_MAGIC
        THEN [ st |-> st, n |-> rx_scan_magic(data, 1) ]
        ELSE IF f.n = 0
        THEN [ st |-> NoteResponse(st, ps_tx_send_nack(st.txc, 0, W32(0), W32(t), << >>)),
               n |-> 2 ]
        ELSE [ st |-> NoteCmd(IF f.hdr.type = PROTO_TYPE_CMD
                              THEN handle_cmd_frame(st, f.hdr, f.payload, f.hdr.len, t)
                              ELSE st,
                              f.hdr),
               n |-> f.n ]

\* This body first aligns on the magic, drops two bytes when the parse fails,
\* and hands every CMD to handle_cmd_frame.
rx_frame_scan(st, data, t) ==
    LET f == proto_parse_frame(data)
    IN  IF RdLE16(data, 1) # PROTO_MAGIC
        THEN [ st |-> st, n |-> rx_scan_magic(data, 1) ]
        ELSE IF f.n = 0 THEN [ st |-> st, n |-> 2 ]
        ELSE [ st |-> NoteCmd(IF f.hdr.type = PROTO_TYPE_CMD
                              THEN handle_cmd_frame(st, f.hdr, f.payload, f.hdr.len, t)
                              ELSE st,
                              f.hdr),
               n |-> f.n ]

\* the pop that ends an iteration
rx_frame_pop(it) == [ it.st EXCEPT !.rx = rb_pop(@, it.n) ]

RECURSIVE ps_core_process_rx_pop1(_, _)
ps_core_process_rx_pop1(st, t) ==
    IF rb_used(st.rx) < PROTO_HDR_LEN + PROTO_CRC_LEN THEN st
    ELSE LET lin == rb_peek_linear(st.rx)
         IN  IF lin.len < PROTO_HDR_LEN + PROTO_CRC_LEN THEN st
             ELSE \* the state after the iteration is computed once
                  CHOOSE r \in { ps_core_process_rx_pop1(s, t) :
                                   s \in { rx_frame_pop(rx_frame_pop1(st, lin.data, t)) } } :
                      TRUE

RECURSIVE ps_core_process_rx_scan(_, _)
ps_core_process_rx_scan(st, t) ==
    IF rb_used(st.rx) < PROTO_HDR_LEN + PROTO_CRC_LEN THEN st
    ELSE LET lin == rb_peek_linear(st.rx)
         IN  IF lin.len < PROTO_HDR_LEN + PROTO_CRC_LEN THEN st
             ELSE CHOOSE r \in { ps_core_process_rx_scan(s, t) :
                                   s \in { rx_frame_pop(rx_frame_scan(st, lin.data, t)) } } :
                      TRUE

\* the two RX loops of the source tree, selected by the build
Builds == { "pop1", "scan" }
rx_frame(bld, st, data, t) ==
    IF bld = "pop1" THEN rx_frame_pop1(st, data, t) ELSE rx_frame_scan(st, data, t)

ps_core_process_rx(bld, st, t) ==
    IF bld = "pop1" THEN ps_core_process_rx_pop1(st, t)
    ELSE ps_core_process_rx_scan(st, t)

\* an on_rx that stores as much of the chunk as the ring has room for
on_rx_storing_prefix(r, d, n) ==
    IF n = 0 THEN r
    ELSE rb_write_partial(r, d, Min(n, U16 - 1)).r

ps_core_on_rx(r, d, n) ==
    IF n = 0 THEN r
    ELSE append_adapter(r, d, Min(n, U16 - 1)).r

\* what the sensor adapter answers in a tick: start/poll result, bytes filled
SensorResults == { "READY", "BUSY", "ERROR" }

\* a test for the period that compares the two counter values as they stand
idle_due_unwrapped(now_w, last_w, period_ms) ==
    LET lo  == last_w[1] + period_ms
        due == << lo % U16, last_w[2] + (lo \div U16) >>
    IN  now_w[2] > due[2] \/ (now_w[2] = due[2] /\ now_w[1] >= due[1])

\* (uint32_t)(now - last_emit_ms) >= period_ms on uint32_t values held as
\* their 16-bit halves; period_ms is a uint16_t
sm_idle_due(now_w, last_w, period_ms) ==
    LET lo   == now_w[1] - last_w[1]
        diff == << (lo + U16) % U16,
                   (now_w[2] - last_w[2] - (IF lo < 0 THEN 1 ELSE 0) + 2 * U16) % U16 >>
    IN  diff[2] > 0 \/ diff[1] >= period_ms

sm_handle_idle(s, t) ==
    IF sm_idle_due(W32(t), W32(s.last_emit_ms), s.period_ms)
    THEN [ s EXCEPT !.sm = "SENSOR_START" ] ELSE s

sm_handle_sensor_start(s, res) ==
    [ s EXCEPT !.sm = CASE res = "READY" -> "READY"
                        [] res = "BUSY"  -> "SENSOR_POLL"
                        [] OTHER         -> "ERROR" ]

\* a SENSOR_POLL handler that takes BUSY for a failure
sm_handle_sensor_poll_once(s, res) ==
    [ s EXCEPT !.sm = CASE res = "READY" -> "READY" [] OTHER -> "ERROR" ]

sm_handle_sensor_poll(s, res) ==
    [ s EXCEPT !.sm = CASE res = "READY" -> "READY"
                        [] res = "BUSY"  -> "SENSOR_POLL"
                        [] OTHER         -> "ERROR" ]

\* an ERROR handler that rewinds the machine and leaves the stream enabled
sm_handle_error_still_streaming(s) == [ s EXCEPT !.sm = "IDLE" ]

sm_handle_error(s) == [ s EXCEPT !.streaming = FALSE, !.sm = "IDLE" ]

\* runtime id followed by the sample bytes
ps_app_build_sensor_payload(runtime_id, sample, cap) ==
    IF cap < Len(sample) + 1 THEN << >> ELSE << runtime_id >> \o sample

SensorSample(n) == [i \in 1 .. n |-> IF i % 2 = 1 THEN 165 ELSE 90]

\* a READ_SENSOR that reads whether the sensor streams or not
handle_read_sensor_any_time(ss, cmd, res, filled) ==
    LET i  == get_sensor_by_runtime_id(ss, cmd.sensor_id)
        pl == ps_app_build_sensor_payload(ss[i].runtime_id, SensorSample(filled),
                                          PROTO_MAX_PAYLOAD)
    IN  IF i = 0
        THEN [ ok |-> FALSE, resp |-> << PS_ERR_INVALID_VALUE >>, sensors |-> ss,
               pc |-> "idle", called |-> FALSE ]
        ELSE IF res = "BUSY"
        THEN [ ok |-> FALSE, resp |-> << >>, sensors |-> ss, pc |-> "poll", called |-> TRUE ]
        ELSE IF res = "ERROR" \/ filled = 0 \/ pl = << >>
        THEN [ ok |-> FALSE, resp |-> << PS_ERR_INTERNAL >>, sensors |-> ss,
               pc |-> "idle", called |-> TRUE ]
        ELSE [ ok |-> TRUE, resp |-> pl, sensors |-> ss, pc |-> "idle", called |-> TRUE ]

\* READ_SENSOR from its entry, or from the head of its poll loop, to its
\* return or to the next pass of the loop. res is what the adapter has
\* returned last (start at the entry, poll in the loop) and filled what fill
\* returns if it is called; pc = "poll" says that the handler has not returned
\* but is to call poll again, called that the handler has called the adapter.
\* The dispatcher always passes a response buffer, and the registered sensor
\* has an adapter.
handle_read_sensor(ss, cmd, res, filled) ==
    LET i  == get_sensor_by_runtime_id(ss, cmd.sensor_id)
        pl == ps_app_build_sensor_payload(ss[i].runtime_id, SensorSample(filled),
                                          PROTO_MAX_PAYLOAD)
    IN  IF i = 0
        THEN [ ok |-> FALSE, resp |-> << PS_ERR_INVALID_VALUE >>, sensors |-> ss,
               pc |-> "idle", called |-> FALSE ]
        ELSE IF ss[i].streaming
        THEN [ ok |-> FALSE, resp |-> << PS_ERR_SENSOR_BUSY >>, sensors |-> ss,
               pc |-> "idle", called |-> FALSE ]
        ELSE IF res = "BUSY"
        THEN [ ok |-> FALSE, resp |-> << >>, sensors |-> ss, pc |-> "poll", called |-> TRUE ]
        ELSE IF res = "ERROR" \/ filled = 0 \/ pl = << >>
        THEN [ ok |-> FALSE, resp |-> << PS_ERR_INTERNAL >>, sensors |-> ss,
               pc |-> "idle", called |-> TRUE ]
        ELSE [ ok |-> TRUE, resp |-> pl, sensors |-> ss, pc |-> "idle", called |-> TRUE ]

\* READY, after send_stream: the sensor's sequence number moves on by one
stream_seq_advance(s) == [ s EXCEPT !.seq = s.seq + 1 ]

\* READY: the sensor after the step and the result of the enqueue, if any;
\* the visit noted last is given the count fill has returned
sm_handle_ready(st, i, t, filled) ==
    LET s    == st.sensors[i]
        want == IF s.max_payload # 0 /\ s.max_payload < PS_SENSOR_SAMPLE_LEN
                THEN s.max_payload ELSE PS_SENSOR_SAMPLE_LEN
        pl   == ps_app_build_sensor_payload(s.runtime_id, SensorSample(Min(filled, want)),
                                            PROTO_MAX_PAYLOAD)
        e    == ps_tx_send_stream(st.txc, st.txr, pl, Len(pl), W32(t), W32(s.seq))
        s1   == [ s EXCEPT !.last_emit_ms = t, !.sm = "IDLE" ]
    IN  IF filled > 0 /\ pl # << >>
        THEN [ st EXCEPT !.txr = e.r,
                         !.enq = IF e.appended
                                 THEN Append(@, proto_write_stream_frame(
                                          PROTO_FRAME_MAX_BYTES, pl, Len(pl),
                                          W32(s.seq), W32(t)))
                                 ELSE @,
                         !.sensors[i] = stream_seq_advance(s1),
                         !.steps[Len(st.steps)].filled = filled ]
        ELSE [ st EXCEPT !.sensors[i] = s1, !.steps[Len(st.steps)].filled = filled ]

\* records one visit to the state machine of sensor i in the tick's account
NoteStep(st, i, ran) ==
    LET s == st.sensors[i]
    IN  [ st EXCEPT !.steps = Append(@, [ i |-> i, ready |-> s.ready,
                                          streaming |-> s.streaming, from |-> s.sm,
                                          ran |-> ran, filled |-> 0, res |-> "none",
                                          op |-> CASE ~ran -> "none"
                                                   [] s.sm = "SENSOR_START" -> "start"
                                                   [] s.sm = "SENSOR_POLL" -> "poll"
                                                   [] s.sm = "READY" -> "fill"
                                                   [] OTHER -> "none" ]) ]

\* a gate that looks at the streaming flag alone
sm_enabled_when_streaming(s) == s.streaming

\* the state machine of a sensor runs only when it is ready and streaming
sm_enabled(s) == s.ready /\ s.streaming

\* one state-machine step of sensor i; a visit that asks the adapter notes
\* what start or poll has returned
sm_step(st, i, t, res, filled) ==
    LET s == st.sensors[i]
        n == NoteStep(st, i, TRUE)
    IN  IF ~sm_enabled(s) THEN NoteStep(st, i, FALSE)
        ELSE CASE s.sm = "IDLE" -> [ n EXCEPT !.sensors[i] = sm_handle_idle(s, t) ]
               [] s.sm = "SENSOR_START" ->
                      [ n EXCEPT !.sensors[i] = sm_handle_sensor_start(s, res),
                                 !.steps[Len(n.steps)].res = res ]
               [] s.sm = "SENSOR_POLL" ->
                      [ n EXCEPT !.sensors[i] = sm_handle_sensor_poll(s, res),
                                 !.steps[Len(n.steps)].res = res ]
               [] s.sm = "READY" -> sm_handle_ready(n, i, t, filled)
               [] OTHER -> [ n EXCEPT !.sensors[i] = sm_handle_error(s) ]

\* the first half of the tick: the RX loop
ps_core_tick_rx(bld, st, t) == ps_core_process_rx(bld, st, t)

\* the pump at the end of the tick: the core state after it, the tx_write
\* invocations made and the bytes removed from the stream ring
core_pump(st, link_ready, best_chunk, wres) ==
    LET p == ps_tx_pump(st.txc, st.txr, link_ready, best_chunk, wres)
    IN  [ st |-> [ st EXCEPT !.txc = p.c, !.txr = p.r ],
          calls |-> p.calls, popped |-> p.popped ]

\* a second half that pumps once more after the pump that ends the tick
tick_pump_twice(a, t, res, filled, link_ready, best_chunk, wres) ==
    LET p == core_pump(sm_step(a, 1, t, res, filled), link_ready, best_chunk, wres)
        q == core_pump(p.st, link_ready, best_chunk, wres)
    IN  [ q EXCEPT !.calls = p.calls \o @, !.popped = p.popped + @ ]

\* a second half that lets the state machine take two steps
tick_sm_twice_pump(a, t, res, filled, link_ready, best_chunk, wres) ==
    core_pump(sm_step(sm_step(a, 1, t, res, filled), 1, t, res, filled),
              link_ready, best_chunk, wres)

\* the second half of the tick: one state-machine step, then one pump
ps_core_tick_sm_pump(a, t, res, filled, link_ready, best_chunk, wres) ==
    core_pump(sm_step(a, 1, t, res, filled), link_ready, best_chunk, wres)

\* the sensor array after ps_app_init_sensors
ps_app_init_sensors ==
    << [ runtime_id |-> 1, ready |-> TRUE, streaming |-> FALSE, sm |-> "IDLE",
         period_ms |-> PS_STREAM_PERIOD_MS, max_payload |-> PROTO_MAX_PAYLOAD,
         last_emit_ms |-> 0, seq |-> 0 ] >>

\* ------------------------------------------------------------------------
\* Sensor manager (ps_sensor_mgr): the adapter of the INA219 sensor
\* ------------------------------------------------------------------------
\* m.state is ctx->state; m.nread counts the read_sample calls made so far,
\* m.fill_read is that count at the last fill that returned a sample, m.op
\* and m.ret are the last adapter call and what it returned
\* hw_ok: what iface.read_sample returns
sensor_mgr_sample_blocking(m, hw_ok) ==
    [ m EXCEPT !.state = IF hw_ok THEN "READY" ELSE "ERROR", !.nread = m.nread + 1 ]

sensor_mgr_start(m) ==
    IF m.state = "READY" THEN [ m EXCEPT !.op = "start", !.ret = "READY" ]
    ELSE IF m.state = "REQUESTED" THEN [ m EXCEPT !.op = "start", !.ret = "BUSY" ]
    ELSE [ m EXCEPT !.state = "REQUESTED", !.op = "start", !.ret = "BUSY" ]

sensor_mgr_poll(m, hw_ok) ==
    CASE m.state \in { "READY", "IDLE" } -> [ m EXCEPT !.op = "poll", !.ret = "READY" ]
      [] m.state = "REQUESTED" ->
             [ sensor_mgr_sample_blocking(m, hw_ok) EXCEPT
                   !.op = "poll", !.ret = IF hw_ok THEN "READY" ELSE "ERROR" ]
      [] OTHER -> [ m EXCEPT !.op = "poll", !.ret = "ERROR" ]

\* m.ret is the count returned; the sample copied is the cached one
sensor_mgr_fill(m, max_len) ==
    IF m.state # "READY" \/ max_len < PS_SENSOR_SAMPLE_LEN
    THEN [ m EXCEPT !.op = "fill", !.ret = 0 ]
    ELSE [ m EXCEPT !.op = "fill", !.ret = PS_SENSOR_SAMPLE_LEN, !.fill_read = m.nread ]

\* ------------------------------------------------------------------------
\* State
\* ------------------------------------------------------------------------
VARIABLES
    rx,         \* RX ring (rb_t), written by on_rx, read by the tick
    txr,        \* TX stream ring (rb_t)
    txc,        \* TX context (ps_tx_ctx_t): response slot, length, pending flag
    now,        \* the millisecond timebase read through now_ms()
    nops,       \* operations performed so far (bounded by MaxOps)
    ev,         \* observation of the last operation (what it was given, what it did)
    formed,     \* every response frame formed so far, in order
    lost,       \* the responses overwritten in the slot while still pending
    resp_log,   \* every response written to the transport in full, in order
    enq_log,    \* every frame the stream ring accepted, in order
    tx_log,     \* every stream frame written to the transport in full, in order
    sensors,    \* the registered sensors (ps_core_sensor_stream_t array)
    build,      \* which of the two RX loops of the source tree is compiled in
    host_seq,   \* the correlation id the host gives its next frame
    pc,         \* where the tick stands in its RX loop when on_rx may preempt it
    loc,        \* the locals of the RX loop: what it has observed of the ring
    accepted,   \* every byte on_rx has stored in the RX ring, in order
    consumed,   \* every byte the tick has popped from the RX ring, in order
    rb,         \* a ring (rb_t) driven directly through the ring_buffer.h calls
    fifo,       \* the bytes that ring was given and has not yet released, oldest first
    rb_ev,      \* observation of the last ring call (its arguments and results)
    sent,       \* every chunk the transport has handed to on_rx, in order
    after_rx,   \* SpecLive: the core state the RX loop of the next tick produces
    hist,       \* START and STOP as they were acknowledged and the stream frames as
                \* the stream ring accepted them, in order
    mgr,        \* the sensor manager behind the adapter (sensor_mgr_ctx_t), with the
                \* count of read_sample calls made and that count at the last fill
    uart,       \* UART transport: the RX assembly buffer, the minimum frame length,
                \* the byte the receiver holds (line), every byte the RX-complete
                \* interrupt has taken and every byte passed to the RX handler
    rd,         \* handle_read_sensor: where the handler stands, whether it has called
                \* the adapter, its return value and its response bytes
    usb         \* USB CDC transport: s_tx_ready, s_dtr, the transfer in flight and
                \* where comm_usb_cdc_pump stands

tx_obs == << formed, lost, resp_log, enq_log, tx_log >>
core_vars == << sensors, build, host_seq >>
isr_vars == << pc, loc, accepted, consumed >>
rb_vars == << rb, fifo, rb_ev >>
vars == << rx, txr, txc, now, nops, ev, tx_obs, core_vars, isr_vars, rb_vars, sent, after_rx, hist,
          mgr, uart, usb, rd >>

NoEv ==
    [ op |-> "init", link |-> FALSE, chunk |-> 0, pre_pending |-> FALSE,
      pre_slot |-> << >>, calls |-> << >>, popped |-> 0, dropped |-> 0,
      cleared |-> FALSE, appended |-> FALSE, len |-> 0, pre_free |-> 0,
      cmds |-> << >>, resps |-> << >>, pre_sm |-> "off", steps |-> << >>,
      given |-> << >>, got |-> << >> ]

\* used: the last count read; contig, ptr: what peek_contiguous returned;
\* data: the bytes read through ptr; n: the bytes the iteration will pop
NoLoc == [ used |-> 0, contig |-> 0, ptr |-> 0, data |-> << >>, n |-> 0 ]

NoRbEv == [ op |-> "none", n |-> 0, ret |-> 0, src |-> << >>, out |-> << >> ]

\* wiring of ps_app_init, the sensors apart
InitApp ==
    /\ rx = rb_init(RxCap)
    /\ txr = rb_init(TxCap)
    /\ txc = ps_tx_init(PROTO_MAX_PAYLOAD, PROTO_FRAME_MAX_BYTES)
    /\ now = 0
    /\ nops = 0
    /\ ev = NoEv
    /\ formed = << >>
    /\ lost = << >>
    /\ resp_log = << >>
    /\ enq_log = << >>
    /\ tx_log = << >>
    /\ build \in Builds
    /\ host_seq = 1
    /\ pc = "idle"
    /\ loc = NoLoc
    /\ accepted = << >>
    /\ consumed = << >>
    /\ sent = << >>
    /\ hist = << >>
    /\ mgr = [ state |-> "IDLE", nread |-> 0, fill_read |-> 0, op |-> "none", ret |-> "none" ]
    /\ rd = [ pc |-> "idle", sensor_id |-> 0, it |-> 0, called |-> FALSE, ok |-> TRUE,
              resp |-> << >> ]
    /\ uart = [ assembly |-> << >>, min_frame_len |-> 0, line |-> << >>, received |-> << >>,
                delivered |-> << >> ]
    /\ usb = [ tx_ready |-> 1, dtr |-> 0, in_flight |-> FALSE, pc |-> "idle", n |-> 0 ]
    /\ after_rx = ps_core_tick_rx(build, CoreState(rx, txc, txr, sensors), now)

Init ==
    /\ sensors = ps_app_init_sensors
    /\ InitApp
    /\ rb = rb_init(RbCap)
    /\ fifo = << >>
    /\ rb_ev = NoRbEv

\* what a pump call adds to the transmission logs
RespSent(p) ==
    IF p.calls # << >> /\ p.calls[1].src = "resp" /\ p.calls[1].w = Len(p.calls[1].data)
    THEN << p.calls[1].data >> ELSE << >>

StreamSent(p) ==
    IF p.calls # << >> /\ p.calls[1].src = "ring" /\ p.calls[1].w = Len(p.calls[1].data)
    THEN << p.calls[1].data >> ELSE << >>

\* ------------------------------------------------------------------------
\* TX engine driven through its public calls
\* ------------------------------------------------------------------------
StreamLens == { 0, 22, 46, 47 }
BestChunks == { PS_TRANSPORT_MAX_WRITE_SIZE, PROTO_HDR_LEN + PROTO_CRC_LEN }

\* 01 A5 5A A5 5A ...: a runtime id followed by bytes that look like the magic
StreamPayload(plen) ==
    [i \in 1 .. plen |-> IF i = 1 THEN 1 ELSE IF i % 2 = 0 THEN 165 ELSE 90]

TxSendResponse ==
    /\ nops < MaxOps
    /\ \E type \in { PROTO_TYPE_ACK, PROTO_TYPE_NACK } :
         LET payload == IF type = PROTO_TYPE_ACK THEN << >> ELSE << PS_ERR_INVALID_CMD >>
             seq     == Len(formed) + 1
         IN  /\ txc' = ps_tx_send_response(txc, type, CMD_PING, W32(seq), W32(now), payload,
                                           Len(payload))
             /\ formed' = Append(formed,
                                 proto_write_frame(PROTO_FRAME_MAX_BYTES, type, CMD_PING,
                                                   payload, Len(payload), W32(seq), W32(now)))
             /\ lost' = IF txc.response_pending THEN Append(lost, PendingResp(txc))
                        ELSE lost
             /\ ev' = [ NoEv EXCEPT !.op = "send_response",
                                    !.pre_pending = txc.response_pending,
                                    !.pre_slot = PendingResp(txc) ]
    /\ nops' = nops + 1
    /\ UNCHANGED << mgr, uart, usb, rd, hist, rb_vars, after_rx, sent, rx, txr, now, resp_log, enq_log, tx_log, core_vars, isr_vars >>

TxSendStream ==
    /\ nops < MaxOps
    /\ \E plen \in StreamLens :
         LET payload == StreamPayload(plen)
             e == ps_tx_send_stream(txc, txr, payload, plen, W32(now), W32(nops))
             f == IF plen > txc.max_payload THEN << >>
                  ELSE proto_write_stream_frame(PROTO_FRAME_MAX_BYTES, payload, plen,
                                                W32(nops), W32(now))
         IN  /\ txr' = e.r
             /\ enq_log' = IF e.appended THEN Append(enq_log, f) ELSE enq_log
             /\ ev' = [ NoEv EXCEPT !.op = "send_stream", !.dropped = e.dropped,
                                    !.cleared = e.cleared, !.appended = e.appended,
                                    !.len = Len(f),
                                    !.pre_free = rb_free(txr) ]
    /\ nops' = nops + 1
    /\ UNCHANGED << mgr, uart, usb, rd, hist, rb_vars, after_rx, sent, rx, txc, now, formed, lost, resp_log, tx_log, core_vars, isr_vars >>

TxPump ==
    /\ nops < MaxOps
    /\ \E link \in BOOLEAN, chunk \in BestChunks, wres \in TxWriteResults :
         LET p == ps_tx_pump(txc, txr, link, chunk, wres)
         IN  /\ txc' = p.c
             /\ txr' = p.r
             /\ resp_log' = resp_log \o RespSent(p)
             /\ tx_log' = tx_log \o StreamSent(p)
             /\ ev' = [ NoEv EXCEPT !.op = "pump", !.link = link, !.chunk = chunk,
                                    !.pre_pending = txc.response_pending,
                                    !.pre_slot = PendingResp(txc),
                                    !.calls = p.calls, !.popped = p.popped ]
    /\ nops' = nops + 1
    /\ UNCHANGED << mgr, uart, usb, rd, hist, rb_vars, after_rx, sent, rx, now, formed, lost, enq_log, core_vars, isr_vars >>

NextTx == TxSendResponse \/ TxSendStream \/ TxPump

InitTx == Init /\ build = "scan"

SpecTx == InitTx /\ [][NextTx]_vars

\* ------------------------------------------------------------------------
\* The core driven by its two entry points: on_rx and tick
\* ------------------------------------------------------------------------
NowSteps == { 0, PS_STREAM_PERIOD_MS }
CoreWriteResults == { "full", "busy", "error" }

HostFrame(cmd_id, payload, seq) ==
    proto_write_frame(PROTO_FRAME_MAX_BYTES, PROTO_TYPE_CMD, cmd_id, payload,
                      Len(payload), W32(seq), W32(0))

\* what the host may send next: commands, a frame that is no command, noise
HostChunks(seq) ==
    { HostFrame(CMD_PING, << >>, seq),
      HostFrame(CMD_START, << 1 >>, seq),
      HostFrame(CMD_GET_UPTIME, << >>, seq),
      proto_write_frame(PROTO_FRAME_MAX_BYTES, PROTO_TYPE_ACK, CMD_PING, << >>, 0,
                        W32(seq), W32(0)),
      << 165, 90, 0 >> }

\* the account of one chunk handed to on_rx: its bytes, whether the RX ring
\* took them, the frame they belong to (none for noise) and the bytes of that
\* frame the transport has yet to deliver
HostChunk(d, stored, frame, rest) ==
    [ data |-> d, stored |-> stored, frame |-> frame, rest |-> rest ]

OnRx ==
    /\ nops < MaxOps
    /\ \E d \in HostChunks(host_seq) :
         /\ rx' = ps_core_on_rx(rx, d, Len(d))
         /\ ev' = [ NoEv EXCEPT !.op = "on_rx", !.len = Len(d),
                                !.pre_free = rb_free(rx),
                                !.appended = (rb_free(rx) >= Len(d)) ]
         /\ sent' = Append(sent, HostChunk(d, rb_free(rx) >= Len(d),
                                           IF proto_parse_frame(d).n > 0 THEN d ELSE << >>,
                                           << >>))
    /\ host_seq' = host_seq + 1
    /\ nops' = nops + 1
    /\ UNCHANGED << mgr, uart, usb, rd, hist, rb_vars, after_rx, txr, txc, now, tx_obs, sensors, build, isr_vars >>

\* the adapter is consulted in SENSOR_START and SENSOR_POLL, fill in READY
AdapterAsked(ss) ==
    \E i \in 1 .. Len(ss) :
        sm_enabled(ss[i]) /\ ss[i].sm \in { "SENSOR_START", "SENSOR_POLL" }

FillAsked(ss) ==
    \E i \in 1 .. Len(ss) : sm_enabled(ss[i]) /\ ss[i].sm = "READY"

\* what a tick leaves behind: k is the result of its second half
\* what a tick adds to the stream history: the START and STOP it has
\* acknowledged, then the ERROR its adapter has returned to start or poll,
\* then the stream frames its state machine has enqueued
StreamEvents(st) ==
    LET ctl(r) == IF Len(r) < PROTO_HDR_LEN \/ proto_hdr(r).type # PROTO_TYPE_ACK
                  THEN "other"
                  ELSE IF proto_hdr(r).cmd_id = CMD_START THEN "start"
                  ELSE IF proto_hdr(r).cmd_id = CMD_STOP THEN "stop"
                  ELSE "other"
        acks   == [i \in 1 .. Len(st.resps) |-> [ kind |-> ctl(st.resps[i]), seq |-> W32(0) ]]
        frames == [i \in 1 .. Len(st.enq) |->
                      [ kind |-> "frame", seq |-> proto_hdr(st.enq[i]).seq ]]
        errs   == [i \in 1 .. Len(st.steps) |->
                      [ kind |-> IF /\ st.steps[i].op \in { "start", "poll" }
                                    /\ st.sensors[st.steps[i].i].sm = "ERROR"
                                 THEN "error" ELSE "other",
                        seq |-> W32(0) ]]
    IN  SelectSeq(acks \o errs, LAMBDA e : e.kind # "other") \o frames

TickCommit(t, link, k) ==
    /\ now' = t
    /\ hist' = hist \o StreamEvents(k.st)
    /\ rx' = k.st.rx
    /\ txc' = k.st.txc
    /\ txr' = k.st.txr
    /\ sensors' = k.st.sensors
    /\ formed' = formed \o k.st.resps
    /\ lost' = lost \o k.st.lost
    /\ enq_log' = enq_log \o k.st.enq
    /\ resp_log' = resp_log \o RespSent(k)
    /\ tx_log' = tx_log \o StreamSent(k)
    /\ ev' = [ NoEv EXCEPT !.op = "tick", !.link = link,
                           !.chunk = PS_TRANSPORT_MAX_WRITE_SIZE,
                           !.pre_pending = txc.response_pending,
                           !.pre_slot = PendingResp(txc),
                           !.calls = k.calls, !.popped = k.popped,
                           !.cmds = k.st.cmds, !.resps = k.st.resps,
                           !.pre_sm = IF sensors[1].streaming THEN sensors[1].sm
                                      ELSE "off",
                           !.steps = k.st.steps ]

\* the tick from the state a its RX loop has produced; inputs nobody reads in
\* this tick are fixed
TickAfterRx(t, a) ==
    \E link \in BOOLEAN,
       wres \in CoreWriteResults,
       res \in IF AdapterAsked(a.sensors) THEN SensorResults ELSE { "READY" },
       filled \in IF FillAsked(a.sensors) THEN { 0, PS_SENSOR_SAMPLE_LEN } ELSE { 0 } :
        /\ link \/ wres = "busy"
        /\ \E k \in { ps_core_tick_sm_pump(a, t, res, filled, link,
                                            PS_TRANSPORT_MAX_WRITE_SIZE, wres) } :
              TickCommit(t, link, k)

Tick ==
    /\ nops < MaxOps
    /\ \E dt \in NowSteps :
         \E a \in { ps_core_tick_rx(build, CoreState(rx, txc, txr, sensors), now + dt) } :
             TickAfterRx(now + dt, a)
    /\ nops' = nops + 1
    /\ UNCHANGED << mgr, uart, usb, rd, rb_vars, after_rx, sent, build, host_seq, isr_vars >>

Next == OnRx \/ Tick

Spec == Init /\ [][Next]_vars

\* every caller of pop on the two rings: the tick (RX loop, pump) and the TX
\* engine called directly (enqueue with its frame drop, pump)
SpecPop == InitTx /\ [][Next \/ NextTx]_vars

\* ------------------------------------------------------------------------
\* on_rx in interrupt context against the RX loop of the tick. The interrupt
\* runs to completion; it may arrive between any two accesses the loop makes
\* to the ring indices (size, peek_contiguous, the reads through the pointer
\* peeked, pop).
\* ------------------------------------------------------------------------
\* what one interrupt may deliver: a command without payload, a command with
\* one, noise
IsrChunks(seq) ==
    { HostFrame(CMD_PING, << >>, seq), HostFrame(CMD_START, << 1 >>, seq), << 165, 90, 0 >> }

IsrOnRx ==
    /\ nops < MaxIsrOps
    /\ \E d \in IsrChunks(host_seq) :
         /\ rx' = ps_core_on_rx(rx, d, Len(d))
         /\ accepted' = IF rx'.head # rx.head THEN accepted \o d ELSE accepted
         /\ ev' = [ NoEv EXCEPT !.op = "isr", !.len = Len(d),
                                !.pre_free = rb_free(rx),
                                !.appended = (rx'.head # rx.head) ]
    /\ host_seq' = host_seq + 1
    /\ nops' = nops + 1
    /\ UNCHANGED << mgr, uart, usb, rd, hist, rb_vars, after_rx, sent, txr, txc, now, tx_obs, sensors, build, pc, loc, consumed >>

TickBegin ==
    /\ pc = "idle"
    /\ nops < MaxIsrOps
    /\ \E dt \in NowSteps : now' = now + dt
    /\ pc' = "size"
    /\ loc' = NoLoc
    /\ ev' = [ NoEv EXCEPT !.op = "tick_begin" ]
    /\ nops' = nops + 1
    /\ UNCHANGED << mgr, uart, usb, rd, hist, rb_vars, after_rx, sent, rx, txr, txc, tx_obs, core_vars, accepted, consumed >>

\* while (size() >= PROTO_HDR_LEN + PROTO_CRC_LEN)
RxSize ==
    /\ pc = "size"
    /\ loc' = [ NoLoc EXCEPT !.used = rb_used(rx) ]
    /\ pc' = IF rb_used(rx) < PROTO_HDR_LEN + PROTO_CRC_LEN THEN "end" ELSE "peek"
    /\ ev' = [ NoEv EXCEPT !.op = "rx_size" ]
    /\ UNCHANGED << mgr, uart, usb, rd, hist, rb_vars, after_rx, sent, rx, txr, txc, now, nops, tx_obs, core_vars, accepted, consumed >>

\* contiguous = peek_contiguous(&data)
RxPeek ==
    /\ pc = "peek"
    /\ loc' = [ loc EXCEPT !.used = rb_used(rx),
                           !.contig = rb_peek_linear(rx).len,
                           !.ptr = rx.tail % rx.cap ]
    /\ pc' = IF rb_peek_linear(rx).len < PROTO_HDR_LEN + PROTO_CRC_LEN
             THEN "end" ELSE "read"
    /\ ev' = [ NoEv EXCEPT !.op = "rx_peek" ]
    /\ UNCHANGED << mgr, uart, usb, rd, hist, rb_vars, after_rx, sent, rx, txr, txc, now, nops, tx_obs, core_vars, accepted, consumed >>

\* what the body of the loop leaves behind: it is the result of the iteration
\* on the bytes data
RxReadCommit(data, it) ==
    /\ txc' = it.st.txc
    /\ sensors' = it.st.sensors
    /\ formed' = formed \o it.st.resps
    /\ lost' = lost \o it.st.lost
    /\ loc' = [ loc EXCEPT !.data = data, !.n = it.n ]

\* the body of the loop up to the pop: the bytes are read from the ring
\* through the pointer peeked
RxReadFrom(data) ==
    RxReadCommit(data, rx_frame(build, CoreState(rx, txc, txr, sensors), data, now))

RxRead ==
    /\ pc = "read"
    /\ RxReadFrom([i \in 1 .. loc.contig |-> rx.buf[loc.ptr + i - 1]])
    /\ pc' = "pop"
    /\ ev' = [ NoEv EXCEPT !.op = "rx_read" ]
    /\ UNCHANGED << mgr, uart, usb, rd, hist, rb_vars, after_rx, sent, rx, txr, now, nops, resp_log, enq_log, tx_log, build, host_seq,
                    accepted, consumed >>

\* pop(n)
RxPop ==
    /\ pc = "pop"
    /\ rx' = rb_pop(rx, loc.n)
    /\ consumed' = consumed \o SubSeq(loc.data, 1, loc.n)
    /\ pc' = "size"
    /\ loc' = NoLoc
    /\ ev' = [ NoEv EXCEPT !.op = "rx_pop", !.popped = loc.n ]
    /\ UNCHANGED << mgr, uart, usb, rd, hist, rb_vars, after_rx, sent, txr, txc, now, nops, tx_obs, core_vars, accepted >>

\* the rest of the tick once the loop has ended
TickEnd ==
    /\ pc = "end"
    /\ TickAfterRx(now, CoreState(rx, txc, txr, sensors))
    /\ pc' = "idle"
    /\ loc' = NoLoc
    /\ UNCHANGED << mgr, uart, usb, rd, rb_vars, after_rx, sent, nops, build, host_seq, accepted, consumed >>

NextIsr == IsrOnRx \/ TickBegin \/ RxSize \/ RxPeek \/ RxRead \/ RxPop \/ TickEnd

SpecIsr == Init /\ [][NextIsr]_vars

\* ------------------------------------------------------------------------
\* SpecLive: the host sends noise and then one command frame, whole or in two
\* pieces as the UART transport flushes it; the main loop never stops ticking
\* ------------------------------------------------------------------------
\* bytes that hold no valid frame: the magic, a header-like run, half a magic
LiveNoise ==
    { << 165, 90, 0 >>,
      << 7, 165, 90, 0, 2, 0, 0, 5, 0, 1, 0, 0, 0, 0, 0, 0, 0, 9, 9, 165, 165, 90, 1, 3,
         165 >> }

\* where the transport may cut a frame: after ten bytes, or after the
\* eighteen bytes of the shortest frame (uart_transport flushes at that length)
LiveCuts == { 10, PROTO_HDR_LEN + PROTO_CRC_LEN }

LiveFrames(seq) == { HostFrame(CMD_PING, << >>, seq), HostFrame(CMD_START, << 1 >>, seq) }

LastSent == sent[Len(sent)]

\* the frame has been delivered to its last byte
HostDone == sent # << >> /\ LastSent.frame # << >> /\ LastSent.rest = << >>

\* what the transport hands over next: [data, frame, rest]
LiveNext ==
    IF sent # << >> /\ LastSent.rest # << >>
    THEN { [ data |-> LastSent.rest, frame |-> LastSent.frame, rest |-> << >> ] }
    ELSE { [ data |-> d, frame |-> << >>, rest |-> << >> ] : d \in LiveNoise }
         \cup { [ data |-> f, frame |-> f, rest |-> << >> ] : f \in LiveFrames(host_seq) }
         \cup UNION { { [ data |-> SubSeq(f, 1, k), frame |-> f,
                          rest |-> SubSeq(f, k + 1, Len(f)) ] :
                        k \in { c \in LiveCuts : c < Len(f) } } :
                      f \in LiveFrames(host_seq) }

LiveOnRx ==
    /\ Len(sent) < MaxLiveChunks
    /\ ~HostDone
    /\ \E c \in LiveNext :
         /\ rx' = ps_core_on_rx(rx, c.data, Len(c.data))
         /\ ev' = [ NoEv EXCEPT !.op = "on_rx", !.len = Len(c.data),
                                !.pre_free = rb_free(rx),
                                !.appended = (rb_free(rx) >= Len(c.data)) ]
         /\ sent' = Append(sent, HostChunk(c.data, rb_free(rx) >= Len(c.data),
                                           c.frame, c.rest))
    /\ host_seq' = host_seq + 1
    /\ after_rx' = ps_core_tick_rx(build, CoreState(rx', txc, txr, sensors), now)
    /\ UNCHANGED << mgr, uart, usb, rd, hist, rb_vars, txr, txc, now, nops, tx_obs, sensors, build, isr_vars >>

\* a pass of the main loop within the current millisecond
TickLive ==
    /\ TickAfterRx(now, after_rx)
    /\ after_rx' = ps_core_tick_rx(build, CoreState(rx', txc', txr', sensors'), now)
    /\ UNCHANGED << mgr, uart, usb, rd, rb_vars, sent, nops, build, host_seq, isr_vars >>

NextLive == LiveOnRx \/ TickLive

\* the main loop calls ps_app_tick for ever
SpecLive == Init /\ [][NextLive]_vars /\ WF_vars(TickLive)

\* ------------------------------------------------------------------------
\* SpecStream: the host starts and stops the stream of sensor 1 while the
\* state machine samples and enqueues; the link takes every write in full
\* ------------------------------------------------------------------------
StreamChunks(seq) ==
    { HostFrame(CMD_START, << 1 >>, seq),
      HostFrame(CMD_STOP, << 1 >>, seq),
      HostFrame(CMD_PING, << >>, seq) }

StreamOnRx ==
    /\ nops < MaxStreamOps
    /\ Len(sent) < MaxStreamChunks
    /\ \E d \in StreamChunks(host_seq) :
         /\ rx' = ps_core_on_rx(rx, d, Len(d))
         /\ ev' = [ NoEv EXCEPT !.op = "on_rx", !.len = Len(d),
                                !.pre_free = rb_free(rx),
                                !.appended = (rb_free(rx) >= Len(d)) ]
         /\ sent' = Append(sent, HostChunk(d, rb_free(rx) >= Len(d), d, << >>))
    /\ host_seq' = host_seq + 1
    /\ nops' = nops + 1
    /\ UNCHANGED << mgr, uart, usb, rd, hist, rb_vars, after_rx, txr, txc, now, tx_obs, sensors, build, isr_vars >>

StreamTick ==
    /\ nops < MaxStreamOps
    /\ \E dt \in NowSteps :
         \E a \in { ps_core_tick_rx(build, CoreState(rx, txc, txr, sensors), now + dt) } :
           \E res \in IF AdapterAsked(a.sensors) THEN SensorResults ELSE { "READY" },
              filled \in IF FillAsked(a.sensors) THEN { 0, PS_SENSOR_SAMPLE_LEN } ELSE { 0 } :
             \E k \in { ps_core_tick_sm_pump(a, now + dt, res, filled, TRUE,
                                             PS_TRANSPORT_MAX_WRITE_SIZE, "full") } :
                TickCommit(now + dt, TRUE, k)
    /\ nops' = nops + 1
    /\ UNCHANGED << mgr, uart, usb, rd, rb_vars, after_rx, sent, build, host_seq, isr_vars >>

NextStream == StreamOnRx \/ StreamTick

SpecStream == Init /\ [][NextStream]_vars

\* ------------------------------------------------------------------------
\* SpecMgr: the stream of the sensor whose adapter is the sensor manager
\* ------------------------------------------------------------------------
\* one tick; what start, poll and fill return is what the manager returns,
\* and read_sample is the one input
MgrTick ==
    /\ nops < MaxStreamOps
    /\ \E dt \in NowSteps, hw_ok \in BOOLEAN :
         \E a \in { ps_core_tick_rx(build, CoreState(rx, txc, txr, sensors), now + dt) } :
           \E m \in { IF ~sm_enabled(a.sensors[1])
                      THEN [ mgr EXCEPT !.op = "none", !.ret = "none" ]
                      ELSE CASE a.sensors[1].sm = "SENSOR_START" -> sensor_mgr_start(mgr)
                             [] a.sensors[1].sm = "SENSOR_POLL" -> sensor_mgr_poll(mgr, hw_ok)
                             [] a.sensors[1].sm = "READY" ->
                                    sensor_mgr_fill(mgr, Min(PS_SENSOR_SAMPLE_LEN,
                                        IF a.sensors[1].max_payload # 0
                                        THEN a.sensors[1].max_payload
                                        ELSE PS_SENSOR_SAMPLE_LEN))
                             [] OTHER -> [ mgr EXCEPT !.op = "none", !.ret = "none" ] } :
             /\ TickCommit(now + dt, TRUE,
                           ps_core_tick_sm_pump(a, now + dt,
                               IF m.op \in { "start", "poll" } THEN m.ret ELSE "READY",
                               IF m.op = "fill" THEN m.ret ELSE 0,
                               TRUE, PS_TRANSPORT_MAX_WRITE_SIZE, "full"))
             /\ mgr' = m
    /\ nops' = nops + 1
    /\ UNCHANGED << uart, usb, rd, rb_vars, after_rx, sent, build, host_seq, isr_vars >>

SpecMgr == Init /\ [][StreamOnRx \/ MgrTick]_vars

\* ------------------------------------------------------------------------
\* SpecRead: READ_SENSOR commands among the START, the STOP and the ticks of
\* SpecStream. The handler is followed pass by pass through its poll loop;
\* the adapter returns what it likes. While the handler has not returned the
\* tick that runs it has not returned either; the RX interrupt still runs.
\* ------------------------------------------------------------------------
\* READ_SENSOR is dispatched: the handler runs up to its return or to the
\* first pass of its poll loop
ReadSensor ==
    /\ nops < MaxReadOps
    /\ rd.pc = "idle"
    /\ \E id \in { 1, 2 }, res \in SensorResults, filled \in { 0, PS_SENSOR_SAMPLE_LEN } :
         \E h \in { handle_read_sensor(sensors, ps_parse_sensor_id(<< id >>, 1), res, filled) } :
           rd' = [ pc |-> h.pc, sensor_id |-> id, it |-> 0, called |-> h.called,
                   ok |-> h.ok, resp |-> h.resp ]
    /\ ev' = [ NoEv EXCEPT !.op = "read_sensor" ]
    /\ nops' = nops + 1
    /\ UNCHANGED << mgr, uart, usb, rx, txr, txc, now, tx_obs, core_vars, isr_vars, rb_vars,
                    sent, after_rx, hist >>

\* one pass of while (res == CORE_SENSOR_BUSY): poll is called, and the
\* handler returns or goes round again; it is the parity of the passes made
ReadPoll ==
    /\ rd.pc = "poll"
    /\ \E res \in SensorResults, filled \in { 0, PS_SENSOR_SAMPLE_LEN } :
         \E h \in { handle_read_sensor(sensors, ps_parse_sensor_id(<< rd.sensor_id >>, 1),
                                       res, filled) } :
           rd' = [ rd EXCEPT !.pc = h.pc, !.it = 1 - rd.it, !.ok = h.ok, !.resp = h.resp ]
    /\ ev' = [ NoEv EXCEPT !.op = "read_poll" ]
    /\ UNCHANGED << mgr, uart, usb, rx, txr, txc, now, nops, tx_obs, core_vars, isr_vars,
                    rb_vars, sent, after_rx, hist >>

\* the loop of the handler is running code: its next pass is taken
SpecRead ==
    /\ Init
    /\ [][\/ nops < MaxReadOps /\ StreamOnRx
          \/ nops < MaxReadOps /\ rd.pc = "idle" /\ StreamTick
          \/ ReadSensor
          \/ ReadPoll]_vars
    /\ WF_vars(ReadPoll)

\* ------------------------------------------------------------------------
\* SpecUart: the RX side of the UART transport (comm_uart.c). The host sends
\* bytes one at a time and may stop after any of them; the receiver raises the
\* RX-complete interrupt for each byte, and the interrupt runs.
\* ------------------------------------------------------------------------
\* uart_transport_set_min_frame_len, called by the board after comm_uart_init
\* and before any byte is received
UartSetMin ==
    /\ uart.received = << >>
    /\ uart.line = << >>
    /\ \E min_len \in { 0, 1, 2, 3 } :
         /\ min_len # uart.min_frame_len
         /\ uart' = [ uart EXCEPT !.min_frame_len = min_len ]
    /\ ev' = [ NoEv EXCEPT !.op = "uart_set_min" ]
    /\ UNCHANGED << mgr, usb, rd, rx, txr, txc, now, nops, tx_obs, core_vars, isr_vars,
                    rb_vars, sent, after_rx, hist >>

\* a byte arrives in the receiver (s_rx_byte)
UartArrive ==
    /\ uart.line = << >>
    /\ Len(uart.received) < MaxUartBytes
    /\ \E b \in { 165, 90 } : uart' = [ uart EXCEPT !.line = << b >> ]
    /\ ev' = [ NoEv EXCEPT !.op = "uart_byte" ]
    /\ UNCHANGED << mgr, usb, rd, rx, txr, txc, now, nops, tx_obs, core_vars, isr_vars,
                    rb_vars, sent, after_rx, hist >>

\* HAL_UART_RxCpltCallback with uart_transport_flush_rx: the byte is stored if
\* the assembly buffer has room, and the buffer is passed to the registered
\* handler (ps_core_on_rx) if a minimum is set and reached
UartRxCplt ==
    /\ uart.line # << >>
    /\ \E asm \in { IF Len(uart.assembly) < UART_RX_ASSEMBLY_BUF_SIZE
                    THEN uart.assembly \o uart.line ELSE uart.assembly } :
         \E flush \in { uart.min_frame_len > 0 /\ Len(asm) >= uart.min_frame_len
                        /\ Len(asm) # 0 } :
           /\ uart' = [ uart EXCEPT !.line = << >>,
                                    !.received = @ \o uart.line,
                                    !.assembly = IF flush THEN << >> ELSE asm,
                                    !.delivered = IF flush THEN @ \o asm ELSE @ ]
           /\ rx' = IF flush THEN ps_core_on_rx(rx, asm, Len(asm)) ELSE rx
    /\ ev' = [ NoEv EXCEPT !.op = "uart_rx" ]
    /\ UNCHANGED << mgr, usb, rd, txr, txc, now, nops, tx_obs, core_vars, isr_vars,
                    rb_vars, sent, after_rx, hist >>

SpecUart == Init /\ [][UartSetMin \/ UartArrive \/ UartRxCplt]_vars /\ WF_vars(UartRxCplt)

\* ------------------------------------------------------------------------
\* SpecUsb: the TX side of the USB CDC transport (comm_usb_cdc.c). The main
\* loop calls the pump on the stream ring; the TX-complete and DTR hooks run
\* in interrupt context and may run between any two statements of the pump.
\* usb.in_flight says that the driver holds a transfer it has not completed.
\* ------------------------------------------------------------------------
\* comm_usb_cdc_pump in two steps: up to the return of comm_usb_cdc_write,
\* then s_tx_ready = 0 and the pop. The device state and the result of
\* CDC_Transmit_FS are inputs.
UsbPump ==
    /\ \/ /\ usb.pc = "idle"
          /\ \E configured \in BOOLEAN, usbd_ok \in BOOLEAN :
               \E avail \in { rb_peek_linear(txr).len } :
                 /\ configured /\ usb.dtr # 0 /\ usb.tx_ready # 0
                 /\ avail # 0
                 /\ usbd_ok
                 /\ usb' = [ usb EXCEPT !.pc = "wrote", !.in_flight = TRUE,
                                        !.n = Min(avail, COMM_USB_CDC_BEST_CHUNK) ]
          /\ txr' = txr
       \/ /\ usb.pc = "wrote"
          /\ usb' = [ usb EXCEPT !.pc = "idle", !.tx_ready = 0 ]
          /\ txr' = rb_pop(txr, usb.n)
    /\ ev' = [ NoEv EXCEPT !.op = "usb_pump" ]
    /\ UNCHANGED << mgr, uart, rd, rx, txc, now, nops, tx_obs, core_vars, isr_vars,
                    rb_vars, sent, after_rx, hist >>

\* comm_usb_cdc_on_tx_complete: the driver has finished the transfer
UsbTxComplete ==
    /\ usb.in_flight
    /\ usb' = [ usb EXCEPT !.tx_ready = 1, !.in_flight = FALSE ]
    /\ ev' = [ NoEv EXCEPT !.op = "usb_tx_complete" ]
    /\ UNCHANGED << mgr, uart, rd, rx, txr, txc, now, nops, tx_obs, core_vars, isr_vars,
                    rb_vars, sent, after_rx, hist >>

\* comm_usb_cdc_on_dtr_change: the host opens or closes the port
UsbDtrChange ==
    /\ \E asserted \in BOOLEAN :
         /\ usb.dtr # (IF asserted THEN 1 ELSE 0)
         /\ usb' = [ usb EXCEPT !.dtr = IF asserted THEN 1 ELSE 0 ]
    /\ ev' = [ NoEv EXCEPT !.op = "usb_dtr" ]
    /\ UNCHANGED << mgr, uart, rd, rx, txr, txc, now, nops, tx_obs, core_vars, isr_vars,
                    rb_vars, sent, after_rx, hist >>

\* the ring is filled by ps_tx_send_stream between the steps of the pump
SpecUsb ==
    InitTx /\ [][(usb.pc = "idle" /\ TxSendStream) \/ UsbPump \/ UsbTxComplete \/ UsbDtrChange]_vars

\* ------------------------------------------------------------------------
\* The command table under well-formed and ill-formed commands
\* ------------------------------------------------------------------------
\* SET_PERIOD for the sensor, with periods around both bounds and at both
\* ends of the 16-bit range, and for a runtime id nobody has; payloads shorter
\* and longer than their parser defines; an opcode outside the table, with
\* and without payload; START
CmdChunks(seq) ==
    { HostFrame(CMD_SET_PERIOD, << 1 >> \o LE16(p), seq) :
          p \in { 0, PS_STREAM_PERIOD_MIN_MS - 1, PS_STREAM_PERIOD_MIN_MS,
                  PS_STREAM_PERIOD_MAX_MS, PS_STREAM_PERIOD_MAX_MS + 1, U16 - 1 } }
    \cup { HostFrame(CMD_SET_PERIOD, << 2 >> \o LE16(PS_STREAM_PERIOD_MIN_MS), seq),
           HostFrame(CMD_SET_PERIOD, << 1, 0 >>, seq),
           HostFrame(CMD_SET_PERIOD, << 1 >> \o LE16(U16 - 1) \o << 0 >>, seq),
           HostFrame(CMD_START, << 1 >>, seq),
           HostFrame(CMD_START, << >>, seq),
           HostFrame(CMD_START, << 1, 0 >>, seq),
           HostFrame(CMD_PING, << 1 >>, seq),
           HostFrame(CMD_GET_UPTIME, << >>, seq),
           HostFrame(CMD_GET_UPTIME, << 1 >>, seq) }

CmdOnRx ==
    /\ nops < MaxCmdOps
    /\ Len(sent) < MaxCmdChunks
    /\ \E d \in CmdChunks(host_seq) :
         /\ rx' = ps_core_on_rx(rx, d, Len(d))
         /\ ev' = [ NoEv EXCEPT !.op = "on_rx", !.len = Len(d),
                                !.pre_free = rb_free(rx),
                                !.appended = (rb_free(rx) >= Len(d)) ]
         /\ sent' = Append(sent, HostChunk(d, rb_free(rx) >= Len(d), d, << >>))
    /\ host_seq' = host_seq + 1
    /\ nops' = nops + 1
    /\ UNCHANGED << mgr, uart, usb, rd, hist, rb_vars, after_rx, txr, txc, now, tx_obs, sensors, build, isr_vars >>

CmdTick ==
    /\ nops < MaxCmdOps
    /\ StreamTick

NextCmd == CmdOnRx \/ CmdTick

SpecCmd == Init /\ [][NextCmd]_vars

\* The same, from both outcomes of the sensor's initialisation: a sensor whose
\* adapter is missing or whose device did not answer is registered not ready.
InitGate ==
    /\ sensors \in { [ ps_app_init_sensors EXCEPT ![1].ready = r ] : r \in BOOLEAN }
    /\ InitApp
    /\ rb = rb_init(RbCap)
    /\ fifo = << >>
    /\ rb_ev = NoRbEv

SpecGate == InitGate /\ [][NextStream]_vars

\* ------------------------------------------------------------------------
\* SpecRb: the ring_buffer.h calls on one ring, as test_ring_buffer.c drives them
\* ------------------------------------------------------------------------
\* an empty ring whose 16-bit indices are about to wrap: what the ring is
\* after U16 - RbCap cycles of writing and popping one zero byte
rb_worn ==
    [rb_init(RbCap) EXCEPT !.head = U16 - RbCap, !.tail = U16 - RbCap, !.highwater = 1]

InitRb ==
    /\ sensors = ps_app_init_sensors
    /\ InitApp
    /\ build = "scan"
    /\ rb \in { rb_init(RbCap), rb_worn }
    /\ fifo = << >>
    /\ rb_ev = NoRbEv

\* the bytes of the k-th call's source buffer: no two calls give the same byte
RbSrc(k, len) == [i \in 1 .. len |-> (2 * RbCap * k + i) % 256]

RbInit ==
    /\ nops < MaxRbOps
    /\ rb' = rb_init(RbCap)
    /\ fifo' = << >>
    /\ rb_ev' = [NoRbEv EXCEPT !.op = "init"]
    /\ nops' = nops + 1
    /\ UNCHANGED << mgr, uart, usb, rd, hist, rx, txr, txc, now, ev, tx_obs, core_vars, isr_vars, sent, after_rx >>

RbWriteTry ==
    /\ nops < MaxRbOps
    /\ \E len \in { 0, 1, 3, RbCap - 2, RbCap - 1, RbCap } :
          LET src == RbSrc(nops, len)
              w   == rb_write_try(rb, src, len)
          IN  /\ rb' = w.r
              /\ fifo' = IF w.ret = len THEN fifo \o src ELSE fifo
              /\ rb_ev' = [NoRbEv EXCEPT !.op = "write", !.n = len, !.ret = w.ret,
                                         !.src = src]
    /\ nops' = nops + 1
    /\ UNCHANGED << mgr, uart, usb, rd, hist, rx, txr, txc, now, ev, tx_obs, core_vars, isr_vars, sent, after_rx >>

\* the callers pop no more than they have seen stored
RbPop ==
    /\ nops < MaxRbOps
    /\ \E n \in 1 .. rb_used(rb) :
          /\ rb' = rb_pop(rb, n)
          /\ fifo' = SubSeq(fifo, n + 1, Len(fifo))
          /\ rb_ev' = [NoRbEv EXCEPT !.op = "pop", !.n = n]
    /\ nops' = nops + 1
    /\ UNCHANGED << mgr, uart, usb, rd, hist, rx, txr, txc, now, ev, tx_obs, core_vars, isr_vars, sent, after_rx >>

RbClear ==
    /\ nops < MaxRbOps
    /\ rb' = rb_clear(rb)
    /\ fifo' = << >>
    /\ rb_ev' = [NoRbEv EXCEPT !.op = "clear"]
    /\ nops' = nops + 1
    /\ UNCHANGED << mgr, uart, usb, rd, hist, rx, txr, txc, now, ev, tx_obs, core_vars, isr_vars, sent, after_rx >>

RbCopyFromTail ==
    /\ nops < MaxRbOps
    /\ \E n \in { 0, 2, RbCap - 1, RbCap } :
          LET out == rb_copy_from_tail(rb, n)
          IN  rb_ev' = [NoRbEv EXCEPT !.op = "copy", !.n = n, !.ret = Len(out),
                                      !.out = out]
    /\ nops' = nops + 1
    /\ UNCHANGED << mgr, uart, usb, rd, hist, rb, fifo, rx, txr, txc, now, ev, tx_obs, core_vars, isr_vars, sent, after_rx >>

NextRb == RbInit \/ RbWriteTry \/ RbPop \/ RbClear \/ RbCopyFromTail

SpecRb == InitRb /\ [][NextRb]_vars

\* ------------------------------------------------------------------------
\* Reading the stream ring as frames
\* ------------------------------------------------------------------------
RingBytes(r) == rb_copy_from_tail(r, rb_used(r))

\* bytes is a concatenation of whole frames, each with a valid header and CRC
RECURSIVE AllWhole(_)
AllWhole(bytes) ==
    IF bytes = << >> THEN TRUE
    ELSE LET n == proto_parse_frame(bytes).n
         IN  IF n = 0 THEN FALSE ELSE AllWhole(SubSeq(bytes, n + 1, Len(bytes)))

\* the frames of a concatenation of whole frames, split at the header lengths
RECURSIVE Frames(_)
Frames(bytes) ==
    IF Len(bytes) < PROTO_HDR_LEN + PROTO_CRC_LEN THEN << >>
    ELSE LET n == Min(PROTO_HDR_LEN + proto_hdr(bytes).len + PROTO_CRC_LEN, Len(bytes))
         IN  << SubSeq(bytes, 1, n) >> \o Frames(SubSeq(bytes, n + 1, Len(bytes)))

RECURSIVE Flatten(_)
Flatten(fs) == IF fs = << >> THEN << >> ELSE Head(fs) \o Flatten(Tail(fs))

\* a[i..] can be found, in order, within b[j..]
RECURSIVE SubseqFrom(_, _, _, _)
SubseqFrom(a, i, b, j) ==
    IF i > Len(a) THEN TRUE
    ELSE IF j > Len(b) THEN FALSE
    ELSE IF a[i] = b[j] THEN SubseqFrom(a, i + 1, b, j + 1)
    ELSE SubseqFrom(a, i, b, j + 1)

\* the fewest oldest frames of q whose removal raises free to at least len
RECURSIVE FewestDrops(_, _, _)
FewestDrops(q, free, len) ==
    IF free >= len \/ q = << >> THEN 0
    ELSE 1 + FewestDrops(Tail(q), free + Len(Head(q)), len)

\* ------------------------------------------------------------------------
\* Claims about the TX engine
\* ------------------------------------------------------------------------

\* C3: when send_response is called while an earlier response is pending, the
\* slot afterwards holds exactly the newer response with pending set, and the
\* response that was overwritten is neither written in full nor offered to
\* tx_write by any later pump.
C3_OverwriteKeepsNewest ==
    /\ (ev.op = "send_response" /\ ev.pre_pending) =>
           /\ txc.response_pending
           /\ PendingResp(txc) = formed[Len(formed)]
           /\ lost # << >> /\ lost[Len(lost)] = ev.pre_slot
    /\ \A i \in 1 .. Len(lost) :
           /\ \A j \in 1 .. Len(resp_log) : resp_log[j] # lost[i]
           /\ \A k \in 1 .. Len(ev.calls) : ev.calls[k].data # lost[i]

\* a newer response overwrote a pending one and was then written in full
C3_Witness ==
    /\ lost # << >>
    /\ ev.op = "pump" /\ ev.calls # << >>
    /\ ev.calls[1].src = "resp" /\ ev.calls[1].w = Len(ev.calls[1].data)
    /\ ev.calls[1].data = formed[Len(formed)]

\* C4: a pump call that starts with the link ready and a pending response no
\* longer than best_chunk() offers exactly that response to tx_write, and offers
\* or pops no byte of the stream ring.
C4_Step ==
    (ev'.op = "pump" /\ ev'.link /\ txc.response_pending
        /\ txc.response_len <= ev'.chunk) =>
        /\ Len(ev'.calls) = 1
        /\ ev'.calls[1].src = "resp"
        /\ ev'.calls[1].data = PendingResp(txc)
        /\ ev'.popped = 0
        /\ txr' = txr

C4_ResponseBeforeStream == [][C4_Step]_vars

\* the response was written while a whole stream frame that fits the chunk waited
C4_Witness ==
    /\ ev.op = "pump" /\ ev.link /\ ev.pre_pending
    /\ ev.calls # << >> /\ ev.calls[1].src = "resp"
    /\ ev.calls[1].w = Len(ev.calls[1].data)
    /\ rb_used(txr) >= PROTO_HDR_LEN + PROTO_CRC_LEN
    /\ rb_used(txr) <= ev.chunk

\* C6: with whole well-formed frames enqueued, after every enqueue and every
\* pump the TX ring is empty or holds whole frames only, the first starting at
\* the read index: drop-oldest leaves no partly removed frame at the read head.
C6_RingHoldsWholeFrames == AllWhole(RingBytes(txr))

\* an enqueue dropped at least one frame and an older frame survived it
C6_Witness ==
    /\ ev.op = "send_stream" /\ ev.dropped >= 1 /\ ev.appended
    /\ rb_used(txr) > ev.len

\* C7: the stream frames written in full to the transport form, in order, a
\* subsequence of the frames the ring accepted (none twice, none reordered).
C7_SentIsSubsequenceOfEnqueued == SubseqFrom(tx_log, 1, enq_log, 1)

\* a frame was sent after the frame enqueued before it had been dropped
C7_Witness ==
    /\ Len(tx_log) >= 1 /\ Len(enq_log) >= 2
    /\ tx_log[1] = enq_log[2]

\* C8: when the ring holds whole frames only and a frame with
\* free < len <= cap - 1 is enqueued, the frame is stored after removing the
\* fewest oldest whole frames that make room, and the ring afterwards holds the
\* remaining frames unchanged and in order, followed by the new frame.
C8_Step ==
    (ev'.op = "send_stream" /\ ev'.len > rb_free(txr)
        /\ ev'.len <= rb_capacity(txr) - 1 /\ AllWhole(RingBytes(txr))) =>
        LET q == Frames(RingBytes(txr))
            k == FewestDrops(q, rb_free(txr), ev'.len)
        IN  /\ ev'.appended /\ ~ev'.cleared
            /\ ev'.dropped = k
            /\ RingBytes(txr') =
                   Flatten(SubSeq(q, k + 1, Len(q))) \o enq_log'[Len(enq_log')]

C8_EnqueueDropsFewest == [][C8_Step]_vars

\* an enqueue into a ring without room dropped a frame and kept another
C8_Witness ==
    /\ ev.op = "send_stream" /\ ev.pre_free < ev.len /\ ev.appended
    /\ ev.dropped >= 1
    /\ rb_used(txr) > ev.len

\* ------------------------------------------------------------------------
\* Claims about the core (Spec)
\* ------------------------------------------------------------------------
\* the header of the i-th response formed by the last tick
TickRespHdr(i) == proto_hdr(ev.resps[i])

\* C1: every CMD frame the RX loop parses, a CMD with an empty payload
\* included, has exactly one ACK or NACK formed in the response slot, carrying
\* the cmd_id and seq of that CMD. Stated per tick: as many responses formed
\* as CMDs parsed, the i-th response answering the i-th CMD.
C1_EveryCmdAnswered ==
    ev.op = "tick" =>
        /\ Len(ev.resps) = Len(ev.cmds)
        /\ \A i \in 1 .. Len(ev.cmds) :
              /\ TickRespHdr(i).type \in { PROTO_TYPE_ACK, PROTO_TYPE_NACK }
              /\ TickRespHdr(i).cmd_id = ev.cmds[i].cmd_id
              /\ TickRespHdr(i).seq = ev.cmds[i].seq

\* C2 as stated: a response, once formed, is never replaced before a pump has
\* transmitted it in full, i.e. no pending response is ever overwritten.
C2_NeverReplaced == lost = << >>

\* C2 amended: a response formed in the slot leaves it only by being written
\* to the transport in full or by being overwritten by a later response; a
\* busy or failing transport never discards it. Every response formed is
\* accounted for: written in full, overwritten while pending, or still
\* pending, and the pending one is the last formed, byte for byte.
C2_ResponseKeptUntilSentOrOverwritten ==
    /\ Len(formed) = Len(resp_log) + Len(lost)
                     + (IF txc.response_pending THEN 1 ELSE 0)
    /\ txc.response_pending => PendingResp(txc) = formed[Len(formed)]
    /\ SubseqFrom(resp_log, 1, formed, 1)
    /\ SubseqFrom(lost, 1, formed, 1)

\* a tick whose pump offered the pending response to a busy transport, after
\* an earlier response had been overwritten: the response is still pending
C2_Witness ==
    /\ ev.op = "tick"
    /\ lost # << >>
    /\ ev.calls # << >> /\ ev.calls[1].src = "resp" /\ ev.calls[1].w = 0
    /\ txc.response_pending

\* C5: a tick, which ends with one pump call, invokes tx_write at most once:
\* one response or one stream frame, never both.
C5_OneWritePerTick == ev.op = "tick" => Len(ev.calls) <= 1

\* a tick that wrote the pending response while a whole stream frame waited
\* in the ring
C5_Witness ==
    /\ ev.op = "tick"
    /\ Len(ev.calls) = 1 /\ ev.calls[1].src = "resp"
    /\ ev.calls[1].w = Len(ev.calls[1].data)
    /\ rb_used(txr) >= PROTO_HDR_LEN + PROTO_CRC_LEN

\* ------------------------------------------------------------------------
\* Claims about on_rx preempting the RX loop (SpecIsr)
\* ------------------------------------------------------------------------
\* bytes stored by on_rx and not yet popped by the tick
Stored == Len(accepted) - Len(consumed)

IsrStep == ev'.op = "isr"
ConsumerStep == ev'.op \in { "rx_size", "rx_peek", "rx_read", "rx_pop" }

C9_Counts ==
    /\ rb_used(rx) = Stored
    /\ rb_used(rx) <= rb_capacity(rx) - 1
    /\ rb_used(rx) + rb_free(rx) = rb_capacity(rx) - 1
    /\ pc \in { "peek", "read", "pop", "end" } => loc.used <= Stored
    /\ pc \in { "read", "pop" } => loc.contig <= Stored

C9_Owners ==
    /\ IsrStep => rx'.tail = rx.tail
    /\ ConsumerStep => rx'.head = rx.head /\ rx'.buf = rx.buf

\* C9: wherever on_rx preempts the RX loop, the used count of the RX ring is
\* the number of bytes stored and not yet popped, at most cap - 1, and
\* used + free = cap - 1; on_rx leaves the read index alone, the loop leaves
\* the write index and the storage alone; and the count the loop last read
\* never exceeds the bytes stored and not yet popped.
C9_SpscInvariants == [](C9_Counts) /\ [][C9_Owners]_vars

\* on_rx has stored bytes after the loop read the count and before its pop:
\* the count the loop holds is smaller than what the ring holds
C9_Witness ==
    /\ pc = "pop"
    /\ ev.op = "isr" /\ ev.appended
    /\ loc.used < Stored

C10_Bytes ==
    /\ Len(consumed) <= Len(accepted)
    /\ consumed = SubSeq(accepted, 1, Len(consumed))
    /\ pc = "pop" => /\ Len(loc.data) <= Stored
                     /\ loc.data = SubSeq(accepted, Len(consumed) + 1,
                                          Len(consumed) + Len(loc.data))

C10_NoOverwrite ==
    IsrStep => \A k \in 0 .. Stored - 1 :
                   rx'.buf[(rx.tail + k) % rx.cap] = rx.buf[(rx.tail + k) % rx.cap]

\* C10: the bytes the RX loop reads through the pointer it peeked are bytes
\* on_rx has stored, in the order it accepted them; on_rx never writes over a
\* byte stored and not yet popped; the bytes popped are a prefix of the bytes
\* accepted.
C10_ConsumedIsAccepted == [](C10_Bytes) /\ [][C10_NoOverwrite]_vars

\* on_rx has stored a frame that wraps around the end of the storage while
\* the loop holds bytes it has read and not yet popped
C10_Witness ==
    /\ pc = "pop"
    /\ ev.op = "isr" /\ ev.appended
    /\ consumed # << >>
    /\ rx.head % rx.cap < rx.tail % rx.cap

\* ------------------------------------------------------------------------
\* Ring buffer contract (SpecRb)
\* ------------------------------------------------------------------------
\* C11: after every init, write_try, pop(n) with n <= used, and clear on a
\* ring of power-of-two capacity, used + free = cap - 1 and
\* 0 <= used <= cap - 1, and used is the number of bytes written and not yet
\* released, also once the 16-bit indices have wrapped.
C11_UsedPlusFree ==
    /\ rb_used(rb) + rb_free(rb) = rb_capacity(rb) - 1
    /\ rb_used(rb) \in 0 .. rb_capacity(rb) - 1
    /\ rb_used(rb) = Len(fifo)

\* a write has filled the ring and taken the write index past 65535 while
\* the read index is still below it
C11_Witness ==
    /\ rb_ev.op = "write" /\ rb_ev.ret > 0
    /\ rb.head < rb.tail
    /\ rb_used(rb) = rb_capacity(rb) - 1

C12_Step ==
    (nops' = nops + 1 /\ rb_ev'.op = "write") =>
        LET n == rb_ev'.n
        IN  IF n <= rb_capacity(rb) - 1 /\ rb_free(rb) >= n
            THEN /\ rb_ev'.ret = n
                 /\ RingBytes(rb') = RingBytes(rb) \o rb_ev'.src
                 /\ rb'.tail = rb.tail
                 /\ rb'.rejected = rb.rejected
            ELSE /\ rb_ev'.ret = 0
                 /\ rb'.buf = rb.buf /\ rb'.head = rb.head /\ rb'.tail = rb.tail
                 /\ rb'.rejected = W32Add(rb.rejected, n)

\* C12: write_try(src, n) stores all n bytes behind the bytes already stored
\* and returns n exactly when n <= cap - 1 and free >= n; otherwise it
\* returns 0, leaves the storage and both indices as they were and adds n to
\* rejected.
C12_WriteAllOrNothing == [][C12_Step]_vars

\* a write that would have fitted an empty ring was refused for lack of room
C12_Witness ==
    /\ rb_ev.op = "write" /\ rb_ev.ret = 0
    /\ rb_ev.n > 0 /\ rb_ev.n <= rb_capacity(rb) - 1
    /\ rb_used(rb) > 0
    /\ rb.rejected = W32(rb_ev.n)

C13_Step ==
    (nops' = nops + 1 /\ rb_ev'.op = "copy") =>
        /\ rb_ev'.ret = Min(rb_ev'.n, rb_used(rb))
        /\ rb_ev'.out = SubSeq(fifo, 1, rb_ev'.ret)
        /\ rb' = rb

\* C13: copy_from_tail(dst, n) returns min(n, used) and puts in dst the
\* oldest min(n, used) unread bytes in the order they were written, also
\* when they span the end of the storage, and changes neither the indices
\* nor the stored bytes.
C13_CopyIsOldestBytes == [][C13_Step]_vars

\* a copy of several bytes, some before and some after the end of the storage
C13_Witness ==
    /\ rb_ev.op = "copy"
    /\ rb_ev.ret > rb_capacity(rb) - (rb.tail % rb_capacity(rb))
    /\ rb_ev.ret >= 3
    /\ rb_ev.out = SubSeq(fifo, 1, rb_ev.ret)

C14_Step ==
    (nops' = nops + 1 /\ ev'.op = "on_rx" /\ rb_free(rx) < ev'.len) =>
        /\ rx'.buf = rx.buf /\ rx'.head = rx.head /\ rx'.tail = rx.tail
        /\ RingBytes(rx') = RingBytes(rx)
        /\ rx'.rejected = W32Add(rx.rejected, ev'.len)

IsCmdFrame(d) ==
    LET f == proto_parse_frame(d) IN f.n > 0 /\ f.hdr.type = PROTO_TYPE_CMD

\* C15: every response ever formed is an ACK or a NACK that echoes the
\* cmd_id and seq of a chunk the RX ring stored, the codec parses (magic,
\* version, length and CRC valid) and whose type is CMD; bytes that fail
\* framing and frames of another type produce no response.
C15_ResponsesAnswerCmdFrames ==
    \A i \in 1 .. Len(formed) :
        LET h == proto_hdr(formed[i])
        IN  /\ h.type \in { PROTO_TYPE_ACK, PROTO_TYPE_NACK }
            /\ \E j \in 1 .. Len(sent) :
                  /\ sent[j].stored
                  /\ IsCmdFrame(sent[j].data)
                  /\ proto_hdr(sent[j].data).cmd_id = h.cmd_id
                  /\ proto_hdr(sent[j].data).seq = h.seq

\* a tick has consumed bytes that fail framing and a valid frame that is no
\* command, and no response has been formed
C15_Witness ==
    /\ ev.op = "tick"
    /\ rb_used(rx) = 0
    /\ formed = << >>
    /\ \E j \in 1 .. Len(sent) : sent[j].stored /\ proto_parse_frame(sent[j].data).n = 0
    /\ \E j \in 1 .. Len(sent) :
          /\ sent[j].stored
          /\ proto_parse_frame(sent[j].data).n > 0
          /\ proto_hdr(sent[j].data).type # PROTO_TYPE_CMD

\* ------------------------------------------------------------------------
\* Noise, wrap and split delivery on the RX path (SpecLive)
\* ------------------------------------------------------------------------
AllStored == \A i \in 1 .. Len(sent) : sent[i].stored

\* the last bytes of the RX ring are the bytes b
RingEndsWith(b) ==
    LET have == RingBytes(rx)
    IN  /\ Len(have) >= Len(b)
        /\ SubSeq(have, Len(have) - Len(b) + 1, Len(have)) = b

\* the responses formed so far that echo the frame f
AnswersTo(f) ==
    { i \in 1 .. Len(formed) :
        /\ proto_hdr(formed[i]).cmd_id = proto_hdr(f).cmd_id
        /\ proto_hdr(formed[i]).seq = proto_hdr(f).seq }

\* the host has sent noise and then one PING, and the ring took every chunk
C16_NoiseThenPing ==
    /\ HostDone /\ AllStored
    /\ proto_hdr(LastSent.frame).cmd_id = CMD_PING

C16_OneAck ==
    /\ Len(formed) = 1
    /\ proto_hdr(formed[1]).type = PROTO_TYPE_ACK
    /\ AnswersTo(LastSent.frame) = { 1 }

\* C16 as stated: noise that holds no valid frame followed by one valid PING,
\* however the bytes are cut into on_rx calls, leads after finitely many
\* ticks to exactly one ACK echoing the PING's cmd_id and seq, and to no
\* other response.
C16_NoiseThenPingAcked ==
    /\ C16_NoiseThenPing ~> C16_OneAck
    /\ [](C16_NoiseThenPing => Len(formed) <= 1)

\* the whole frame lies in the RX ring, behind whatever precedes it
C17_FrameStored == HostDone /\ RingEndsWith(LastSent.frame)

C17_FrameConsumed ==
    /\ HostDone
    /\ ev.op = "tick"
    /\ \E k \in 1 .. Len(ev.cmds) :
          /\ ev.cmds[k].cmd_id = proto_hdr(LastSent.frame).cmd_id
          /\ ev.cmds[k].seq = proto_hdr(LastSent.frame).seq
    /\ ~RingEndsWith(LastSent.frame)

\* C17 as stated: a valid frame that is completely stored in the RX ring is
\* eventually parsed and popped by the ticks that follow, wherever it lies
\* relative to the end of the storage and whatever precedes it.
C17_StoredFrameConsumed == C17_FrameStored ~> C17_FrameConsumed

\* the first piece of a frame is in the ring and its last piece is still due
C18_Incomplete == sent # << >> /\ LastSent.rest # << >> /\ LastSent.stored

C18_SplitDelivered ==
    /\ HostDone /\ LastSent.stored
    /\ LastSent.data # LastSent.frame
    /\ sent[Len(sent) - 1].stored

\* C18 as stated: while a CMD frame that arrives in two on_rx calls is still
\* incomplete the RX loop pops none of its bytes, and once its last byte has
\* arrived the CMD is dispatched exactly once.
C18_SplitFrameKept ==
    /\ [](C18_Incomplete => RingEndsWith(LastSent.data))
    /\ C18_SplitDelivered ~> (Cardinality(AnswersTo(LastSent.frame)) = 1)

C20_NoFrameAfterStop ==
    \A i \in 2 .. Len(hist) : hist[i].kind = "frame" => hist[i - 1].kind # "stop"

\* the tick that found the machine in READY, with a sample to send, has
\* processed the STOP and has enqueued nothing
C20_Witness ==
    /\ ev.op = "tick" /\ ev.pre_sm = "READY"
    /\ hist # << >> /\ hist[Len(hist)].kind = "stop"
    /\ ~sensors[1].streaming
    /\ enq_log = << >>

\* ------------------------------------------------------------------------
\* The state machine under errors, its pace and its gate
\* ------------------------------------------------------------------------
\* the adapter has returned ERROR and no START has been processed since
Errored(h) ==
    /\ \E i \in 1 .. Len(h) : h[i].kind = "error"
    /\ LET e == CHOOSE i \in 1 .. Len(h) :
                    h[i].kind = "error" /\ \A j \in i + 1 .. Len(h) : h[j].kind # "error"
       IN  \A j \in e + 1 .. Len(h) : h[j].kind # "start"

\* C21: after the adapter has returned ERROR to start or poll, the next tick
\* leaves the sensor with streaming = false and sm = IDLE, and as long as no
\* START for the sensor is processed every tick keeps it there, invokes no
\* adapter operation for it and enqueues no stream frame.
C21_Step ==
    (ev'.op = "tick" /\ Errored(hist) /\ Errored(hist')) =>
        /\ ~sensors'[1].streaming
        /\ sensors'[1].sm = "IDLE"
        /\ \A i \in 1 .. Len(ev'.steps) : ev'.steps[i].op = "none"
        /\ enq_log' = enq_log

C21_ErrorStopsSensor == [][C21_Step]_vars

\* after a first frame the adapter has returned ERROR, the tick after it has taken the sensor out of
\* ERROR, and one more tick has found it not streaming and has left it alone
C21_Witness ==
    /\ Errored(hist)
    /\ ev.op = "tick" /\ ev.pre_sm = "off"
    /\ ev.steps = << [ i |-> 1, ready |-> TRUE, streaming |-> FALSE, from |-> "IDLE",
                       ran |-> FALSE, filled |-> 0, res |-> "none",
                       op |-> "none" ] >>
    /\ ~sensors[1].streaming /\ sensors[1].sm = "IDLE"
    /\ \E i \in 1 .. Len(hist) : hist[i].kind = "frame"

\* ------------------------------------------------------------------------
\* The command table
\* ------------------------------------------------------------------------
\* C22: the period of every registered sensor lies between the minimum and
\* the maximum period in every state after initialisation, whatever
\* SET_PERIOD commands, accepted or refused, and ticks have happened.
C22_PeriodInRange ==
    \A i \in 1 .. Len(sensors) :
        /\ sensors[i].period_ms >= PS_STREAM_PERIOD_MIN_MS
        /\ sensors[i].period_ms <= PS_STREAM_PERIOD_MAX_MS

\* a SET_PERIOD to the maximum has been acknowledged and applied, and a
\* SET_PERIOD to one more than the maximum has been refused after it
C22_Witness ==
    /\ sensors[1].period_ms = PS_STREAM_PERIOD_MAX_MS
    /\ Len(sent) = 2
    /\ sent[1].data = HostFrame(CMD_SET_PERIOD, << 1 >> \o LE16(PS_STREAM_PERIOD_MAX_MS), 1)
    /\ sent[2].data = HostFrame(CMD_SET_PERIOD, << 1 >> \o LE16(PS_STREAM_PERIOD_MAX_MS + 1), 2)
    /\ Len(formed) = 2
    /\ proto_hdr(formed[1]).type = PROTO_TYPE_ACK
    /\ proto_hdr(formed[2]).type = PROTO_TYPE_NACK

\* the states one dispatch of the machine can lead to
SmSucc(from) ==
    CASE from = "IDLE" -> { "IDLE", "SENSOR_START" }
      [] from \in { "SENSOR_START", "SENSOR_POLL" } -> { "READY", "SENSOR_POLL", "ERROR" }
      [] OTHER -> { "IDLE" }

\* C23: a tick dispatches the state machine of the sensor at most once: it
\* makes at most one transition and invokes at most one of start, poll and
\* fill, and enqueues a frame only from READY.
C23_Step ==
    ev'.op = "tick" =>
        /\ Cardinality({ i \in 1 .. Len(ev'.steps) : ev'.steps[i].ran }) <= 1
        /\ Cardinality({ i \in 1 .. Len(ev'.steps) : ev'.steps[i].op # "none" }) <= 1
        /\ \A i \in 1 .. Len(ev'.steps) :
              LET e == ev'.steps[i]
              IN  e.ran => sensors'[e.i].sm \in SmSucc(e.from)
        /\ enq_log' # enq_log =>
              \E i \in 1 .. Len(ev'.steps) : ev'.steps[i].from = "READY" /\ ev'.steps[i].op = "fill"
        /\ Len(enq_log') <= Len(enq_log) + 1

\* so every frame enqueued has taken three ticks of its own: IDLE to
\* SENSOR_START, SENSOR_START to READY, READY to IDLE
C23_OneStepPerTick ==
    /\ [](3 * Len(enq_log) <= nops - Len(sent))
    /\ [][C23_Step]_vars

\* one START and six ticks have produced two frames
C23_Witness ==
    /\ Len(sent) = 1 /\ nops = 7
    /\ Len(enq_log) = 2
    /\ ev.op = "tick" /\ ev.steps # << >> /\ ev.steps[1].from = "READY"
    /\ sensors[1].sm = "IDLE"

\* C30: a tick visits the state machine of every sensor, and for a sensor
\* that is not ready or not streaming at that moment it does not dispatch
\* the machine: the sm state stays, no adapter operation is invoked and no
\* stream frame is enqueued.
C30_Step ==
    ev'.op = "tick" =>
        /\ \A s \in 1 .. Len(sensors) : \E i \in 1 .. Len(ev'.steps) : ev'.steps[i].i = s
        /\ \A i \in 1 .. Len(ev'.steps) :
              LET e == ev'.steps[i]
              IN  ~(e.ready /\ e.streaming) =>
                      /\ ~e.ran
                      /\ e.op = "none"
                      /\ sensors'[e.i].sm = e.from
                      /\ enq_log' = enq_log

ParserLen(cmd_id) ==
    CASE cmd_id \in { CMD_START, CMD_STOP } -> 1
      [] cmd_id = CMD_SET_PERIOD -> 3
      [] OTHER -> 0

RegisteredSent == { CMD_START, CMD_STOP, CMD_SET_PERIOD, CMD_PING }

\* the sensor went into its state-machine visit of this step as it was
\* before the step, and goes out of the step with the period it had
SensorsUntouched ==
    /\ sensors'[1].period_ms = sensors[1].period_ms
    /\ sensors'[1].seq = sensors[1].seq + (Len(enq_log') - Len(enq_log))
    /\ \A i \in 1 .. Len(ev'.steps) :
          /\ ev'.steps[i].streaming = sensors[1].streaming
          /\ ev'.steps[i].from = sensors[1].sm

\* the responses of the step that echo the command c
StepAnswers(c) ==
    { j \in 1 .. Len(ev'.resps) :
        /\ proto_hdr(ev'.resps[j]).cmd_id = c.cmd_id
        /\ proto_hdr(ev'.resps[j]).seq = c.seq }

\* C28: a command for a registered opcode whose payload is shorter or longer
\* than its parser defines is refused: nothing acknowledges it, and a tick
\* that has parsed only such commands has changed no streaming flag, period,
\* sequence number or machine state.
C28_Step ==
    ev'.op = "tick" =>
        LET wrong == { k \in 1 .. Len(ev'.cmds) :
                         /\ ev'.cmds[k].cmd_id \in RegisteredSent
                         /\ ev'.cmds[k].len # ParserLen(ev'.cmds[k].cmd_id) }
        IN  /\ \A k \in wrong : \A j \in StepAnswers(ev'.cmds[k]) :
                  proto_hdr(ev'.resps[j]).type = PROTO_TYPE_NACK
            /\ (wrong # { } /\ wrong = 1 .. Len(ev'.cmds)) => SensorsUntouched

C28_WrongLengthRefused == [][C28_Step]_vars

\* C29: a command whose opcode is not in the table is answered with a NACK
\* that echoes its cmd_id and seq and carries the one byte INVALID_CMD, and a
\* tick that has parsed only such commands has changed no streaming flag,
\* period, sequence number or machine state.
C29_Step ==
    ev'.op = "tick" =>
        LET unknown == { k \in 1 .. Len(ev'.cmds) : ev'.cmds[k].cmd_id = CMD_GET_UPTIME }
        IN  /\ \A k \in unknown :
                  /\ StepAnswers(ev'.cmds[k]) # { }
                  /\ \A j \in StepAnswers(ev'.cmds[k]) :
                        /\ proto_hdr(ev'.resps[j]).type = PROTO_TYPE_NACK
                        /\ proto_parse_frame(ev'.resps[j]).payload = << PS_ERR_INVALID_CMD >>
            /\ (unknown # { } /\ unknown = 1 .. Len(ev'.cmds)) => SensorsUntouched

C29_UnknownOpcodeNacked == [][C29_Step]_vars

\* ------------------------------------------------------------------------
\* The pump against a response that does not fit and a write that fails
\* ------------------------------------------------------------------------
\* the frame at the read head of the stream ring, whole, or nothing
HeadFrame(r) ==
    IF rb_used(r) < PROTO_HDR_LEN + PROTO_CRC_LEN THEN << >>
    ELSE LET n == PROTO_HDR_LEN + proto_hdr(rb_copy_from_tail(r, PROTO_HDR_LEN)).len
                  + PROTO_CRC_LEN
         IN  IF rb_used(r) < n THEN << >> ELSE rb_copy_from_tail(r, n)

\* C25: with the link ready and a response pending that is longer than
\* best_chunk, a pump goes on to the stream ring and offers its head frame to
\* tx_write if that frame is whole and fits best_chunk.
C25_Step ==
    (ev'.op = "pump" /\ ev'.link /\ txc.response_pending
        /\ txc.response_len > ev'.chunk
        /\ HeadFrame(txr) # << >> /\ Len(HeadFrame(txr)) <= ev'.chunk) =>
        /\ Len(ev'.calls) = 1
        /\ ev'.calls[1].src = "ring"
        /\ ev'.calls[1].data = HeadFrame(txr)

C25_OversizedResponseLetsStreamPass == [][C25_Step]_vars

\* C26: a pump whose tx_write returns anything but the full length changes
\* neither the TX context nor the stream ring: the response stays pending
\* with its bytes, the frame stays at the read head, and a pump repeated with
\* the same best_chunk offers the very same bytes again.
C26_Step ==
    (ev'.op = "pump" /\ ev'.calls # << >>
        /\ ev'.calls[1].w # Len(ev'.calls[1].data)) =>
        /\ txc' = txc
        /\ txr' = txr
        /\ ev'.popped = 0
        /\ LET again == ps_tx_pump(txc', txr', TRUE, ev'.chunk, "full")
           IN  /\ again.calls # << >>
               /\ again.calls[1].src = ev'.calls[1].src
               /\ again.calls[1].data = ev'.calls[1].data

C26_FailedWriteChangesNothing == [][C26_Step]_vars

\* a stream frame was offered, the write came back short, and the frame is
\* still the head of the ring
C26_Witness ==
    /\ ev.op = "pump" /\ ev.calls # << >>
    /\ ev.calls[1].src = "ring"
    /\ ev.calls[1].w > 0 /\ ev.calls[1].w < Len(ev.calls[1].data)
    /\ HeadFrame(txr) = ev.calls[1].data
    /\ tx_log = << >>

\* ------------------------------------------------------------------------
\* The frame codec and ps_tx_enqueue_frame applied to drawn inputs
\* ------------------------------------------------------------------------
\* proto_write_frame on each drawn frame, then proto_parse_frame on the bytes
\* written; slack = out_cap - frame_len
FnTrips ==
    [ F \in [ type   : { PROTO_TYPE_STREAM, PROTO_TYPE_NACK },
              cmd_id : { 0, 255 },
              plen   : { 0, 1, PROTO_MAX_PAYLOAD - 1, PROTO_MAX_PAYLOAD },
              seq    : { W32(0), << U16 - 1, U16 - 1 >> },
              ts     : { << 0, 32768 >> },
              slack  : { -1, 0, 1 } ] |->
        LET f == proto_write_frame(PROTO_HDR_LEN + F.plen + PROTO_CRC_LEN + F.slack,
                                   F.type, F.cmd_id, StreamPayload(F.plen), F.plen,
                                   F.seq, F.ts)
            p == proto_parse_frame(f)
        IN  [ written |-> Len(f), n |-> p.n, hdr |-> p.hdr, payload |-> p.payload ] ]
    @@ << >>    \* tabulated once

FnRoundTrip ==
    /\ nops < MaxFnOps
    /\ \E F \in DOMAIN FnTrips :
         ev' = [ NoEv EXCEPT !.op = "round_trip", !.given = << F >>,
                             !.got = << FnTrips[F] >> ]
    /\ nops' = nops + 1
    /\ UNCHANGED << mgr, uart, usb, rd, hist, rb_vars, after_rx, sent, rx, txr, txc, now, tx_obs, core_vars, isr_vars >>

\* what the stream ring is given before the enqueue: whole frames, a header
\* without its payload, a frame cut short, a header of zeros, filler bytes
FnFills ==
    { proto_write_stream_frame(PROTO_FRAME_MAX_BYTES, StreamPayload(2), 2,
                               W32(0), W32(0)),
      proto_write_stream_frame(PROTO_FRAME_MAX_BYTES, StreamPayload(PROTO_MAX_PAYLOAD),
                               PROTO_MAX_PAYLOAD, W32(0), W32(0)),
      SubSeq(proto_write_stream_frame(PROTO_FRAME_MAX_BYTES, StreamPayload(2), 2,
                                      W32(0), W32(0)), 1, PROTO_HDR_LEN),
      SubSeq(proto_write_stream_frame(PROTO_FRAME_MAX_BYTES,
                                      StreamPayload(PROTO_MAX_PAYLOAD),
                                      PROTO_MAX_PAYLOAD, W32(0), W32(0)), 1, 30),
      [i \in 1 .. PROTO_HDR_LEN |-> 0],
      [i \in 1 .. 40 |-> 255] }

FnFill ==
    /\ nops < MaxFnOps
    /\ \E bytes \in FnFills :
         /\ rb_free(txr) >= Len(bytes)
         /\ txr' = append_adapter(txr, bytes, Len(bytes)).r
         /\ ev' = [ NoEv EXCEPT !.op = "fill", !.len = Len(bytes) ]
    /\ nops' = nops + 1
    /\ UNCHANGED << mgr, uart, usb, rd, hist, rb_vars, after_rx, sent, rx, txc, now, tx_obs, core_vars, isr_vars >>

\* the frames enqueued: 1 byte, 18, 64, cap - 1, and cap bytes
FnFrames ==
    { << 7 >>,
      proto_write_stream_frame(PROTO_FRAME_MAX_BYTES, << >>, 0, W32(0), W32(0)),
      proto_write_stream_frame(PROTO_FRAME_MAX_BYTES, StreamPayload(PROTO_MAX_PAYLOAD),
                               PROTO_MAX_PAYLOAD, W32(0), W32(0)),
      [i \in 1 .. TxCap - 1 |-> 17], [i \in 1 .. TxCap |-> 17] }

FnEnqueue ==
    /\ nops < MaxFnOps
    /\ \E frame \in FnFrames :
         LET e == ps_tx_enqueue_frame(txr, frame, Len(frame))
         IN  /\ txr' = e.r
             /\ enq_log' = IF e.appended THEN Append(enq_log, frame) ELSE enq_log
             /\ ev' = [ NoEv EXCEPT !.op = "enqueue", !.dropped = e.dropped,
                                    !.cleared = e.cleared, !.appended = e.appended,
                                    !.len = Len(frame), !.pre_free = rb_free(txr),
                                    !.given = << frame >> ]
    /\ nops' = nops + 1
    /\ UNCHANGED << mgr, uart, usb, rd, hist, rb_vars, after_rx, sent, rx, txc, now, formed, lost, resp_log, tx_log, core_vars, isr_vars >>

\* the test of sm_handle_idle on a counter that has run on by `elapsed` since
\* the last emission, from values of last_emit_ms below and at the wrap
FnIdle ==
    /\ nops < MaxFnOps
    /\ \E last \in { W32(0), << U16 - 500, U16 - 1 >>, << U16 - 1, U16 - 1 >> },
          elapsed \in { 0, 4, 5, 499, 999, 1000, 9999, 10000, 65536, 2147483647 },
          period \in { PS_STREAM_PERIOD_MIN_MS, PS_STREAM_PERIOD_MS,
                       PS_STREAM_PERIOD_MAX_MS } :
         ev' = [ NoEv EXCEPT !.op = "idle",
                   !.given = << [ last |-> last, elapsed |-> elapsed, period |-> period,
                                  t |-> W32Add(last, elapsed) ] >>,
                   !.got = << sm_idle_due(W32Add(last, elapsed), last, period) >> ]
    /\ nops' = nops + 1
    /\ UNCHANGED << mgr, uart, usb, rd, hist, rb_vars, after_rx, sent, rx, txr, txc, now, tx_obs, core_vars, isr_vars >>

NextFn == FnRoundTrip \/ FnFill \/ FnEnqueue \/ FnIdle

SpecFn == InitTx /\ [][NextFn]_vars

\* C24: a frame with payload_len <= PROTO_MAX_PAYLOAD (0 and the maximum
\* included) written by proto_write_frame into a buffer of at least frame_len
\* bytes is written whole, and proto_parse_frame on the written bytes returns
\* frame_len with the same type, cmd_id, seq, ts_ms and payload length and the
\* same payload bytes.
C24_RoundTrip ==
    ev.op = "round_trip" =>
        LET F == ev.given[1]
            g == ev.got[1]
            frame_len == PROTO_HDR_LEN + F.plen + PROTO_CRC_LEN
        IN  (F.plen <= PROTO_MAX_PAYLOAD /\ F.slack >= 0) =>
                /\ g.written = frame_len
                /\ g.n = frame_len
                /\ g.hdr = [ magic |-> PROTO_MAGIC, type |-> F.type,
                             ver |-> PROTO_VERSION, len |-> F.plen,
                             cmd_id |-> F.cmd_id, rsv |-> 0,
                             seq |-> F.seq, ts_ms |-> F.ts ]
                /\ g.payload = StreamPayload(F.plen)

\* a NACK frame with the largest payload and the largest seq came back from
\* the parser out of a buffer of exactly frame_len bytes
C24_Witness ==
    /\ ev.op = "round_trip"
    /\ ev.given[1].plen = PROTO_MAX_PAYLOAD
    /\ ev.given[1].slack = 0
    /\ ev.given[1].type = PROTO_TYPE_NACK
    /\ ev.given[1].seq = << U16 - 1, U16 - 1 >>
    /\ ev.got[1].n = PROTO_FRAME_MAX_BYTES
    /\ Len(ev.got[1].payload) = PROTO_MAX_PAYLOAD

\* C27: whatever the stream ring holds (whole frames, a truncated header,
\* garbage at the read head), ps_tx_enqueue_frame with 0 < len <= cap - 1
\* returns after at most one successful drop per byte the ring held and at
\* most one clear, and the ring then ends with the new frame, preceded by
\* nothing but the newest bytes it held before.
C27_Step ==
    (ev'.op = "enqueue" /\ ev'.len > 0 /\ ev'.len <= rb_capacity(txr) - 1) =>
        LET old == RingBytes(txr)
            new == RingBytes(txr')
            k   == Len(new) - ev'.len
        IN  /\ ev'.appended
            /\ ev'.dropped <= Len(old)
            /\ ev'.cleared => k = 0
            /\ k >= 0 /\ k <= Len(old)
            /\ SubSeq(new, k + 1, Len(new)) = ev'.given[1]
            /\ SubSeq(new, 1, k) = SubSeq(old, Len(old) - k + 1, Len(old))

C27_EnqueueTerminatesWithFrameStored == [][C27_Step]_vars

\* garbage at the read head was dropped byte by byte, the frame cut short
\* behind it made the loop clear the ring, and the new frame is all it holds
C27_Witness ==
    /\ ev.op = "enqueue"
    /\ ev.dropped >= 2
    /\ ev.cleared
    /\ ev.appended
    /\ RingBytes(txr) = ev.given[1]

\* ------------------------------------------------------------------------
\* The streaming state machine, state by state
\* ------------------------------------------------------------------------
\* C31: a tick that handles no command and in which fill returns 0 in READY
\* leaves the sensor in IDLE, enqueues no STREAM frame and changes neither the
\* sensor's seq nor its last_emit_ms.
C31_Step ==
    (ev'.op = "tick" /\ ev'.cmds = << >>) =>
        \A k \in 1 .. Len(ev'.steps) :
            LET e == ev'.steps[k]
            IN  (e.ran /\ e.op = "fill" /\ e.filled = 0) =>
                    /\ sensors'[e.i].sm = "IDLE"
                    /\ enq_log' = enq_log
                    /\ sensors'[e.i].seq = sensors[e.i].seq
                    /\ sensors'[e.i].last_emit_ms = sensors[e.i].last_emit_ms

C31_EmptyFillKeepsLastEmit == [][C31_Step]_vars

\* C32: in IDLE the machine moves to SENSOR_START exactly when the time that
\* has passed since last_emit_ms is at least period_ms, also when the
\* millisecond counter has wrapped in between: an acquisition that is due is
\* not suppressed and one that is not due is not triggered.
C32_IdleDueAcrossWrap ==
    ev.op = "idle" => (ev.got[1] <=> ev.given[1].elapsed >= ev.given[1].period)

\* last_emit_ms 500 ms before the wrap, the counter 500 ms after it, the
\* period of 1000 ms just reached
C32_Witness ==
    /\ ev.op = "idle"
    /\ ev.given[1].last = << U16 - 500, U16 - 1 >>
    /\ ev.given[1].elapsed = 1000
    /\ ev.given[1].t = W32(500)
    /\ ev.given[1].period = PS_STREAM_PERIOD_MS
    /\ ev.got[1]

\* the state that follows SENSOR_START and SENSOR_POLL for each adapter result
SmAfter(res) ==
    CASE res = "READY" -> "READY" [] res = "BUSY" -> "SENSOR_POLL" [] OTHER -> "ERROR"

\* C33 as stated: a sensor found in SENSOR_START or SENSOR_POLL by a tick is
\* asked start or poll in that tick and leaves the tick in READY, SENSOR_POLL
\* or ERROR according to the result; it leaves these states in no other way.
C33_OnlyStep ==
    (ev'.op = "tick" /\ sensors[1].sm \in { "SENSOR_START", "SENSOR_POLL" }) =>
        \E k \in 1 .. Len(ev'.steps) :
            LET e == ev'.steps[k]
            IN  /\ e.i = 1 /\ e.ran /\ e.from = sensors[1].sm
                /\ sensors'[1].sm = SmAfter(e.res)

C33_NoOtherTransition == [][C33_OnlyStep]_vars

\* the tick has acknowledged a START or a STOP
CtlAcked(h, h2) ==
    \E k \in Len(h) + 1 .. Len(h2) : h2[k].kind \in { "start", "stop" }

\* C33, amended: every step taken from SENSOR_START calls start, every step
\* taken from SENSOR_POLL calls poll, and the state after it is READY,
\* SENSOR_POLL or ERROR according to the result; a sensor found in one of the
\* two states by a tick takes such a step in it unless the tick has
\* acknowledged a START or STOP, which rewinds the machine to IDLE first.
C33_Step ==
    ev'.op = "tick" =>
        /\ \A k \in 1 .. Len(ev'.steps) :
              LET e == ev'.steps[k]
              IN  (e.ran /\ e.from \in { "SENSOR_START", "SENSOR_POLL" }) =>
                      /\ e.op = (IF e.from = "SENSOR_START" THEN "start" ELSE "poll")
                      /\ e.res \in SensorResults
                      /\ sensors'[e.i].sm = SmAfter(e.res)
        /\ sensors[1].sm \in { "SENSOR_START", "SENSOR_POLL" } =>
              \/ \E k \in 1 .. Len(ev'.steps) :
                    ev'.steps[k].ran /\ ev'.steps[k].from = sensors[1].sm
              \/ /\ CtlAcked(hist, hist')
                 /\ \A k \in 1 .. Len(ev'.steps) :
                       ev'.steps[k].from \in { "IDLE" }
                 /\ sensors'[1].sm \in { "IDLE", "SENSOR_START" }

C33_TransitionsByResult == [][C33_Step]_vars

\* start has returned BUSY, poll has returned BUSY and then READY, and a frame
\* has followed
C33_Witness ==
    /\ ev.op = "tick"
    /\ \E k \in 1 .. Len(ev.steps) :
          ev.steps[k].from = "SENSOR_POLL" /\ ev.steps[k].res = "READY"
    /\ sensors[1].sm = "READY"
    /\ sensors[1].seq = 1

\* ------------------------------------------------------------------------
\* C36: for each sensor, the core never calls adapter.start again while an
\* acquisition it started is still in progress (start has returned BUSY and
\* neither READY nor ERROR has been returned since), also when STOP_STREAM
\* or START_STREAM arrive in the middle of the acquisition.  The manager is
\* in REQUESTED exactly while such an acquisition is in progress.
\* ------------------------------------------------------------------------
C36_NoStartDuringAcquisition ==
    [][(ev'.op = "tick" /\ mgr'.op = "start") => mgr.state # "REQUESTED"]_vars

\* ------------------------------------------------------------------------
\* C37: every STREAM frame carries a sample acquired after the previous
\* STREAM frame was formed: between two successive fill calls that return a
\* sample, read_sample is invoked at least once.
\* ------------------------------------------------------------------------
C37_ReadBetweenFills ==
    [][(ev'.op = "tick" /\ mgr'.op = "fill" /\ mgr'.ret # 0)
           => mgr.nread > mgr.fill_read]_vars

C35_ReadSensorReturns == (rd.pc = "poll") ~> (rd.pc = "idle")

C39_EveryByteDelivered ==
    \A k \in 1 .. MaxUartBytes :
        (Len(uart.received) >= k)
            ~> (Len(uart.delivered) >= k /\ uart.delivered[k] = uart.received[k])

\* ------------------------------------------------------------------------
\* C40: after every successful write started by comm_usb_cdc_pump, s_tx_ready
\* is 1 again once the matching TX-complete interrupt has run, for every
\* interleaving of the interrupt with the statements of the pump: whenever
\* the pump is not running and no transfer is in flight, the flag is 1.
\* ------------------------------------------------------------------------
C40_ReadyWhenNothingInFlight ==
    (usb.pc = "idle" /\ ~usb.in_flight) => usb.tx_ready = 1

====
